---- MODULE Spec2Model ----
(***************************************************************************)
(* A model of the gesture recognition engine: the PointerManager (pointer  *)
(* tracker), the ActiveGesturesRegistry, the Pan and Pinch recognizers and *)
(* the GestureManager (coordinator).  One action is one host callback or   *)
(* one public call, run to completion (the engine is single-threaded).     *)
(*                                                                         *)
(* Numbers are JavaScript numbers.  They are modelled as exact fractions   *)
(* <<n, d>> with d >= 0 in lowest terms; d = 0 encodes the non-finite      *)
(* values: <<1,0>> = Infinity, <<-1,0>> = -Infinity, <<0,0>> = NaN.        *)
(***************************************************************************)
EXTENDS Integers, Sequences, FiniteSets, TLC

VARIABLES
    env,                \* the input source: which coordinates and origins events carry
    now,                \* the host clock (event.timeStamp of the next event)
    pointers,           \* PointerManager.pointers: pointerId -> PointerData
    gestureHandlers,    \* PointerManager.gestureHandlers, in subscription order
    pointerManager,     \* PointerManager.instance: null, or the tracker (its configuration)
    activeGestures,     \* ActiveGesturesRegistry.activeGestures: set of <<element, gesture>>
    gestureTemplates,   \* GestureManager.gestureTemplates: name -> template
    elementGestureMap,  \* GestureManager.elementGestureMap: element -> name -> gesture
    gestures,           \* every gesture instance created so far, by instance number
    lastNotify,         \* observer: what each handler was handed in the last step, in order
    emitted,            \* observer: the notifications dispatched during the last step
    proto,              \* observer: per instance, is a start open / was the phase order broken
    lastOp              \* observer: the last operation, its argument and what it returned

vars == <<env, now, pointers, gestureHandlers, pointerManager, activeGestures, gestureTemplates,
          elementGestureMap, gestures, lastNotify, emitted, proto, lastOp>>

NULL == "null"

\* a nullable object: <<>> is null, <<v>> holds v
None == <<>>

Some(v) == <<v>>

\* ----------------------------------------------------------------- bounds
MaxTime == 1
MaxInstances == 3
MaxTotal == 20
MaxScaleTerm == 9

\* ------------------------------------------------------ JavaScript numbers
Abs(n) == IF n < 0 THEN -n ELSE n

Sign(n) == IF n < 0 THEN -1 ELSE IF n > 0 THEN 1 ELSE 0

RECURSIVE Gcd(_, _)
Gcd(a, b) == IF b = 0 THEN a ELSE Gcd(b, a % b)

Norm(n, d) ==
    IF d = 0 THEN <<Sign(n), 0>>
    ELSE LET s == IF d < 0 THEN -1 ELSE 1
             g == Gcd(Abs(n), Abs(d))
         IN <<(s * n) \div g, (s * d) \div g>>

Num(i) == <<i, 1>>

IsNaN(a) == a = <<0, 0>>

IsFinite(a) == a[2] # 0

NumAdd(a, b) ==
    IF a[2] = 0 /\ b[2] = 0 THEN (IF a = b THEN a ELSE <<0, 0>>)
    ELSE Norm(a[1] * b[2] + b[1] * a[2], a[2] * b[2])

NumNeg(a) == <<-a[1], a[2]>>

NumSub(a, b) == NumAdd(a, NumNeg(b))

NumMul(a, b) == Norm(a[1] * b[1], a[2] * b[2])

NumDiv(a, b) ==
    IF b[1] < 0 THEN Norm(-(a[1] * b[2]), a[2] * (-b[1]))
    ELSE Norm(a[1] * b[2], a[2] * b[1])

\* a >= b; every comparison with NaN is false
NumGeq(a, b) ==
    /\ ~IsNaN(a) /\ ~IsNaN(b)
    /\ IF a[2] = 0 /\ b[2] = 0 THEN a[1] >= b[1]
       ELSE IF a[2] = 0 THEN a[1] > 0
       ELSE IF b[2] = 0 THEN b[1] < 0
       ELSE a[1] * b[2] >= b[1] * a[2]

NumGt(a, b) == NumGeq(a, b) /\ a # b

NumAbs(a) == <<Abs(a[1]), a[2]>>

\* a number used as a condition: 0 and NaN are falsy
Truthy(a) == a[1] # 0

\* Math.sqrt on the squares the inputs produce; the input source only carries
\* coordinates whose distances are whole numbers
Sqrt(n) == CHOOSE r \in 0..n : r * r = n

\* ----------------------------------------------------------------- the DOM
Elements == {"body", "t1", "t2"}

\* element.contains(node), with the element itself included; body is the root
Contains(element, node) == node # NULL /\ (element = node \/ element = "body")

EventTypes == {"pointerdown", "pointermove", "pointerup", "pointercancel"}

PointerIds == {1, 2}

\* ------------------------------------------------------ PointerManager
createPointerData(event) ==
    [pointerId |-> event.pointerId, clientX |-> event.clientX, clientY |-> event.clientY,
     target |-> event.target, type |-> event.type, timeStamp |-> event.timeStamp]

MapSet(map, key, value) == [k \in DOMAIN map \cup {key} |-> IF k = key THEN value ELSE map[k]]

MapDelete(map, key) == [k \in DOMAIN map \ {key} |-> map[k]]

EmptyMap == [k \in {} |-> NULL]

\* ------------------------------------------------------------------ utils
RECURSIVE SumOf(_)
SumOf(bag) ==
    IF bag = <<>> THEN 0 ELSE Head(bag) + SumOf(Tail(bag))

RECURSIVE SetToSeq(_)
SetToSeq(S) ==
    IF S = {} THEN <<>>
    ELSE LET e == CHOOSE e \in S : TRUE IN <<e>> \o SetToSeq(S \ {e})

\* the arithmetic mean position of the pointers; (0, 0) for no pointer
calculateCentroid(ptrs) ==
    IF ptrs = {} THEN [x |-> Num(0), y |-> Num(0)]
    ELSE LET q == SetToSeq(ptrs)
         IN [x |-> Norm(SumOf([k \in 1..Len(q) |-> q[k].clientX]), Len(q)),
             y |-> Norm(SumOf([k \in 1..Len(q) |-> q[k].clientY]), Len(q))]

PointerDistance(p, q) ==
    Sqrt((p.clientX - q.clientX) * (p.clientX - q.clientX)
         + (p.clientY - q.clientY) * (p.clientY - q.clientY))

\* the spread of the pointers: the mean distance over all pairs; 0 below two pointers
calculateAverageDistance(ptrs) ==
    IF Cardinality(ptrs) < 2 THEN Num(0)
    ELSE LET pairs == SetToSeq({pq \in ptrs \X ptrs : pq[1].pointerId < pq[2].pointerId})
         IN Norm(SumOf([k \in 1..Len(pairs) |-> PointerDistance(pairs[k][1], pairs[k][2])]),
                 Len(pairs))

\* the dominant direction from one point to another: the larger absolute axis
\* wins, a tie (and no movement) has no direction
getDirection(previous, current) ==
    LET dx == NumSub(current.x, previous.x)
        dy == NumSub(current.y, previous.y)
    IN IF NumGt(NumAbs(dx), NumAbs(dy)) THEN (IF dx[1] > 0 THEN "right" ELSE "left")
       ELSE IF NumGt(NumAbs(dy), NumAbs(dx)) THEN (IF dy[1] > 0 THEN "down" ELSE "up")
       ELSE NULL

isDirectionAllowed(direction, allowed) == direction # NULL /\ direction \in allowed

\* ------------------------------------------------- ActiveGesturesRegistry
registerActiveGesture(registry, element, g) == registry \cup {<<element, g>>}

unregisterActiveGesture(registry, element, g) == registry \ {<<element, g>>}

isGestureActive(registry, element, g) == <<element, g>> \in registry

RegistryUnregisterElement(registry, element) == {r \in registry : r[1] # element}

\* ------------------------------------------------------------ Gesture base
\* st is the state a notification pass threads through the handlers:
\* [gestures, activeGestures, emitted, proto, seen]

\* the names the registry reports active on an element (name -> true)
getActiveGestures(st, element) ==
    {st.gestures[r[2]].name : r \in {e \in st.activeGestures : e[1] = element}}

\* a gesture that takes every event as its own
getTargetElementAlways(g, event) == g.element

getTargetElement(g, event) ==
    IF Contains(g.element, event.target) THEN g.element ELSE NULL

\* get isActive
isActive(st, i) == isGestureActive(st.activeGestures, st.gestures[i].element, i)

\* set isActive
SetIsActive(st, i, value) ==
    [st EXCEPT !.activeGestures =
        IF value THEN registerActiveGesture(@, st.gestures[i].element, i)
        ELSE unregisterActiveGesture(@, st.gestures[i].element, i)]

shouldPreventGesture(st, i, element) ==
    IF st.gestures[i].preventIf = {} THEN FALSE
    ELSE \E gestureName \in st.gestures[i].preventIf :
            gestureName \in getActiveGestures(st, element)

\* the phase order of one instance: (start ongoing* (end | cancel))*
ProtoStep(p, phase) ==
    IF p = "bad" THEN "bad"
    ELSE IF phase = "start" THEN (IF p = "closed" THEN "open" ELSE "bad")
    ELSE IF p # "open" THEN "bad"
    ELSE IF phase = "ongoing" THEN "open"
    ELSE "closed"

\* element.dispatchEvent(new CustomEvent(eventName, {detail}))
DispatchCustomEvent(st, i, phase, detail) ==
    [st EXCEPT !.emitted = Append(@, [gesture |-> i, phase |-> phase, detail |-> detail]),
               !.proto[i] = ProtoStep(@, phase)]

Ids(ptrs) == {p.pointerId : p \in ptrs}

Released(p) == p.type = "pointerup" \/ p.type = "pointercancel"

\* pointers.filter(p => element === p.target || element.contains(p.target))
RelevantPointers(ptrs, element) == {p \in ptrs : Contains(element, p.target)}

\* -------------------------------------------------------------- PanGesture
PanInitialState ==
    [active |-> FALSE, startCentroid |-> None, lastCentroid |-> None,
     movementThresholdReached |-> FALSE, totalDeltaX |-> Num(0), totalDeltaY |-> Num(0)]

PanResetState(st, i) == [st EXCEPT !.gestures[i].state = PanInitialState]

PanResetActiveState(st, i) ==
    [st EXCEPT !.gestures[i].state =
        [@ EXCEPT !.active = FALSE, !.startCentroid = None, !.lastCentroid = None,
                  !.movementThresholdReached = FALSE]]

\* The velocity fields of the payload (delta over the time since first contact),
\* and state.startPointers, which only they read, are not part of the model.
emitPanEvent(st, i, element, phase, ptrs, event, currentCentroid) ==
    LET s == st.gestures[i].state IN
    IF s.startCentroid = None THEN st
    ELSE DispatchCustomEvent(st, i, phase,
            [centroid |-> currentCentroid,
             target |-> event.target,
             pointers |-> Ids(ptrs),
             timeStamp |-> event.timeStamp,
             deltaX |-> NumSub(currentCentroid.x, s.startCentroid[1].x),
             deltaY |-> NumSub(currentCentroid.y, s.startCentroid[1].y),
             direction |-> getDirection(s.startCentroid[1], currentCentroid),
             totalDeltaX |-> s.totalDeltaX,
             totalDeltaY |-> s.totalDeltaY])

\* a cancel that resets the state without telling the listeners
PanCancelSilent(st, i, element, ptrs, event) == PanResetState(st, i)

PanCancel(st, i, element, ptrs, event) ==
    LET s == st.gestures[i].state IN
    PanResetState(
        IF s.active /\ s.startCentroid # None /\ s.lastCentroid # None
        THEN emitPanEvent(st, i, element, "cancel", ptrs, event, s.lastCentroid[1])
        ELSE st, i)

\* a recognizer that resolves the origin of the event before it handles the
\* force reset
PanForceResetWithinTarget(st, i, ptrs, event) ==
    LET g == st.gestures[i]
        s == g.state
    IN IF getTargetElement(g, event) # NULL /\ s.active
       THEN PanResetActiveState(
                IF s.startCentroid # None /\ s.lastCentroid # None
                THEN emitPanEvent(st, i, g.element, "cancel", ptrs, event, s.lastCentroid[1])
                ELSE st, i)
       ELSE st

PanForceReset(st, i, ptrs, event) ==
    LET g == st.gestures[i]
        s == g.state
    IN IF s.active
       THEN PanResetActiveState(
                IF s.startCentroid # None /\ s.lastCentroid # None
                THEN emitPanEvent(st, i, g.element, "cancel", ptrs, event, s.lastCentroid[1])
                ELSE st, i)
       ELSE st

PanPointerDown(st, i, relevantPointers) ==
    LET s == st.gestures[i].state IN
    IF ~s.active /\ s.startCentroid = None
    THEN [st EXCEPT !.gestures[i].state =
            [@ EXCEPT !.startCentroid = Some(calculateCentroid(relevantPointers)),
                      !.lastCentroid = Some(calculateCentroid(relevantPointers))]]
    ELSE st

\* a recognizer that starts only beyond the threshold
PanDistanceBeyond(deltaX, deltaY, threshold) ==
    NumGt(NumAdd(NumMul(deltaX, deltaX), NumMul(deltaY, deltaY)),
          Num(threshold * threshold))

\* Math.sqrt(deltaX * deltaX + deltaY * deltaY) >= this.threshold, compared on
\* the squares
PanDistanceReached(deltaX, deltaY, threshold) ==
    threshold <= 0
    \/ NumGeq(NumAdd(NumMul(deltaX, deltaX), NumMul(deltaY, deltaY)),
              Num(threshold * threshold))

PanPointerMove(st, i, targetElement, relevantPointers, event) ==
    LET g == st.gestures[i]
        s == g.state
    IN IF s.startCentroid # None /\ Cardinality(relevantPointers) >= g.minPointers
       THEN LET currentCentroid == calculateCentroid(relevantPointers)
                deltaX == NumSub(currentCentroid.x, s.startCentroid[1].x)
                deltaY == NumSub(currentCentroid.y, s.startCentroid[1].y)
                distanceReached == PanDistanceReached(deltaX, deltaY, g.threshold)
                moveDirection == getDirection(s.startCentroid[1], currentCentroid)
                st1 ==
                    IF /\ ~s.movementThresholdReached
                       /\ distanceReached
                       /\ isDirectionAllowed(moveDirection, g.direction)
                    THEN emitPanEvent(
                            [st EXCEPT !.gestures[i].state.movementThresholdReached = TRUE,
                                       !.gestures[i].state.active = TRUE],
                            i, targetElement, "start", relevantPointers, event, currentCentroid)
                    ELSE IF s.movementThresholdReached /\ s.active
                    THEN LET lastDeltaX == IF s.lastCentroid # None
                                           THEN NumSub(currentCentroid.x, s.lastCentroid[1].x)
                                           ELSE Num(0)
                             lastDeltaY == IF s.lastCentroid # None
                                           THEN NumSub(currentCentroid.y, s.lastCentroid[1].y)
                                           ELSE Num(0)
                         IN emitPanEvent(
                                [st EXCEPT !.gestures[i].state.totalDeltaX = NumAdd(@, lastDeltaX),
                                           !.gestures[i].state.totalDeltaY = NumAdd(@, lastDeltaY)],
                                i, targetElement, "ongoing", relevantPointers, event,
                                currentCentroid)
                    ELSE st
            IN [st1 EXCEPT !.gestures[i].state.lastCentroid = Some(currentCentroid)]
       ELSE st

PanPointerUp(st, i, targetElement, relevantPointers, event) ==
    LET s == st.gestures[i].state IN
    IF s.active /\ s.movementThresholdReached
    THEN IF {p \in relevantPointers : ~Released(p)} = {}
         THEN LET currentCentroid ==
                      IF s.lastCentroid # None THEN s.lastCentroid[1] ELSE s.startCentroid[1]
              IN PanResetActiveState(
                     emitPanEvent(st, i, targetElement, "end", relevantPointers, event,
                                  currentCentroid), i)
         ELSE st
    ELSE PanResetActiveState(st, i)

PanHandlePointerEvent(st, i, ptrs, event) ==
    LET g == st.gestures[i]
        targetElement == getTargetElement(g, event)
        relevantPointers == RelevantPointers(ptrs, targetElement)
    IN IF event.forceReset THEN PanForceReset(st, i, ptrs, event)
       ELSE IF targetElement = NULL THEN st
       ELSE IF \/ Cardinality(relevantPointers) < g.minPointers
               \/ Cardinality(relevantPointers) > g.maxPointers
       THEN (IF g.state.active THEN PanCancel(st, i, targetElement, relevantPointers, event)
             ELSE st)
       ELSE IF event.type = "pointerdown" THEN PanPointerDown(st, i, relevantPointers)
       ELSE IF event.type = "pointermove"
       THEN PanPointerMove(st, i, targetElement, relevantPointers, event)
       ELSE PanPointerUp(st, i, targetElement, relevantPointers, event)

\* ------------------------------------------------------------ PinchGesture
PinchInitialState ==
    [startDistance |-> Num(0), lastDistance |-> Num(0), lastScale |-> Num(1),
     lastTime |-> 0, velocity |-> Num(0), totalScale |-> Num(1)]

\* isActive = false, and every field but totalScale back to its initial value
PinchResetState(st, i) ==
    [SetIsActive(st, i, FALSE) EXCEPT !.gestures[i].state =
        [PinchInitialState EXCEPT !.totalScale = st.gestures[i].state.totalScale]]

emitPinchEvent(st, i, element, phase, ptrs, event) ==
    LET s == st.gestures[i].state IN
    DispatchCustomEvent(st, i, phase,
        [centroid |-> calculateCentroid(ptrs),
         target |-> event.target,
         pointers |-> Ids(ptrs),
         timeStamp |-> event.timeStamp,
         scale |-> s.lastScale,
         totalScale |-> s.totalScale,
         distance |-> s.lastDistance,
         velocity |-> s.velocity,
         activeGestures |-> getActiveGestures(st, element)])

PinchPointerDown(st, i, targetElement, relevantPointers, event) ==
    IF Cardinality(relevantPointers) >= 2 /\ ~isActive(st, i)
    THEN LET initialDistance == calculateAverageDistance(relevantPointers)
             st1 == [st EXCEPT !.gestures[i].state.startDistance = initialDistance,
                               !.gestures[i].state.lastDistance = initialDistance,
                               !.gestures[i].state.lastTime = event.timeStamp]
         IN emitPinchEvent(SetIsActive(st1, i, TRUE), i, targetElement, "start",
                           relevantPointers, event)
    ELSE st

\* a recognizer that measures the scale against the previous move
PinchScaleFromLast(currentDistance, s) ==
    IF Truthy(s.lastDistance) THEN NumDiv(currentDistance, s.lastDistance) ELSE Num(1)

\* scale relative to the distance at the start of the gesture
PinchScale(currentDistance, s) ==
    IF Truthy(s.startDistance) THEN NumDiv(currentDistance, s.startDistance) ELSE Num(1)

PinchPointerMove(st, i, targetElement, relevantPointers, event) ==
    LET g == st.gestures[i]
        s == g.state
    IN IF /\ isActive(st, i)
          /\ Truthy(s.startDistance)
          /\ Cardinality(relevantPointers) >= g.minPointers
       THEN LET currentDistance == calculateAverageDistance(relevantPointers)
                scale == PinchScale(currentDistance, s)
                scaleChange == NumDiv(scale, s.lastScale)
                deltaTime == event.timeStamp - s.lastTime
                velocity == IF deltaTime > 0 /\ Truthy(s.lastDistance)
                            THEN NumDiv(NumSub(currentDistance, s.lastDistance),
                                        Norm(deltaTime, 1000))
                            ELSE s.velocity
            IN emitPinchEvent(
                   [st EXCEPT !.gestures[i].state =
                       [@ EXCEPT !.totalScale = NumMul(@, scaleChange),
                                 !.velocity = velocity,
                                 !.lastDistance = currentDistance,
                                 !.lastScale = scale,
                                 !.lastTime = event.timeStamp]],
                   i, targetElement, "ongoing", relevantPointers, event)
       ELSE st

\* a lift branch that reports every lift below minPointers as an end
PinchPointerUpAlwaysEnd(st, i, targetElement, relevantPointers, event) ==
    LET g == st.gestures[i]
        remainingPointers == {p \in relevantPointers : ~Released(p)}
    IN IF isActive(st, i)
       THEN IF Cardinality(remainingPointers) < g.minPointers
            THEN PinchResetState(
                     emitPinchEvent(st, i, targetElement, "end", relevantPointers, event), i)
            ELSE IF Cardinality(remainingPointers) >= 2
            THEN [st EXCEPT !.gestures[i].state.startDistance =
                    NumDiv(calculateAverageDistance(remainingPointers), g.state.lastScale)]
            ELSE st
       ELSE st

PinchPointerUp(st, i, targetElement, relevantPointers, event) ==
    LET g == st.gestures[i]
        remainingPointers == {p \in relevantPointers : ~Released(p)}
    IN IF isActive(st, i)
       THEN IF Cardinality(remainingPointers) < g.minPointers
            THEN PinchResetState(
                     emitPinchEvent(st, i, targetElement,
                         IF event.type = "pointercancel" THEN "cancel" ELSE "end",
                         relevantPointers, event), i)
            ELSE IF Cardinality(remainingPointers) >= 2
            THEN [st EXCEPT !.gestures[i].state.startDistance =
                    NumDiv(calculateAverageDistance(remainingPointers), g.state.lastScale)]
            ELSE st
       ELSE st

PinchHandlePointerEvent(st, i, ptrs, event) ==
    LET g == st.gestures[i]
        targetElement == getTargetElement(g, event)
        relevantPointers == RelevantPointers(ptrs, targetElement)
    IN IF targetElement = NULL THEN st
       ELSE IF shouldPreventGesture(st, i, targetElement)
       THEN (IF isActive(st, i)
             THEN PinchResetState(emitPinchEvent(st, i, targetElement, "cancel", ptrs, event), i)
             ELSE st)
       ELSE IF event.type = "pointerdown"
       THEN PinchPointerDown(st, i, targetElement, relevantPointers, event)
       ELSE IF event.type = "pointermove"
       THEN PinchPointerMove(st, i, targetElement, relevantPointers, event)
       ELSE PinchPointerUp(st, i, targetElement, relevantPointers, event)

\* ------------------------------------------------- PointerGesture (base)
\* the handler a pointer gesture subscribes with at init
HandlePointerEvent(st, i, ptrs, event) ==
    IF st.gestures[i].kind = "pan" THEN PanHandlePointerEvent(st, i, ptrs, event)
    ELSE PinchHandlePointerEvent(st, i, ptrs, event)

\* gestureHandlers.forEach(handler => handler(this.pointers, event))
RECURSIVE notifyHandlers(_, _, _, _)
notifyHandlers(st, handlers, ptrs, event) ==
    IF handlers = <<>> THEN st
    ELSE notifyHandlers(
            HandlePointerEvent(
                [st EXCEPT !.seen = Append(@, [handler |-> Head(handlers),
                                               pointers |-> ptrs, event |-> event])],
                Head(handlers), ptrs, event),
            Tail(handlers), ptrs, event)

Values(map) == {map[k] : k \in DOMAIN map}

\* ------------------------------------------------ construction and cloning
\* {...options, ...overrides}
Merge(options, overrides) ==
    [f \in DOMAIN options \cup DOMAIN overrides |->
        IF f \in DOMAIN overrides THEN overrides[f] ELSE options[f]]

AllDirections == {"up", "down", "left", "right"}

\* new PanGesture(options): Gesture, PointerGesture and PanGesture constructors
NewPanGesture(options) ==
    [kind |-> "pan",
     name |-> options.name,
     element |-> NULL,
     destroyed |-> FALSE,
     preventDefault |-> IF "preventDefault" \in DOMAIN options THEN options.preventDefault ELSE FALSE,
     stopPropagation |-> IF "stopPropagation" \in DOMAIN options THEN options.stopPropagation ELSE FALSE,
     preventIf |-> IF "preventIf" \in DOMAIN options THEN options.preventIf ELSE {},
     threshold |-> options.threshold,
     minPointers |-> options.minPointers,
     maxPointers |-> options.maxPointers,
     direction |-> IF "direction" \in DOMAIN options THEN options.direction ELSE AllDirections,
     state |-> PanInitialState]

NewPinchGesture(options) ==
    [kind |-> "pinch",
     name |-> options.name,
     element |-> NULL,
     destroyed |-> FALSE,
     preventDefault |-> IF "preventDefault" \in DOMAIN options THEN options.preventDefault ELSE FALSE,
     stopPropagation |-> IF "stopPropagation" \in DOMAIN options THEN options.stopPropagation ELSE FALSE,
     preventIf |-> IF "preventIf" \in DOMAIN options THEN options.preventIf ELSE {},
     threshold |-> options.threshold,
     minPointers |-> IF "minPointers" \in DOMAIN options THEN options.minPointers ELSE 2,
     maxPointers |-> options.maxPointers,
     state |-> PinchInitialState]

PanClone(t, overrides) ==
    NewPanGesture(Merge(
        [name |-> t.name, preventDefault |-> t.preventDefault,
         stopPropagation |-> t.stopPropagation, threshold |-> t.threshold,
         minPointers |-> t.minPointers, maxPointers |-> t.maxPointers,
         direction |-> t.direction], overrides))

PinchClone(t, overrides) ==
    NewPinchGesture(Merge(
        [name |-> t.name, preventDefault |-> t.preventDefault,
         stopPropagation |-> t.stopPropagation, threshold |-> t.threshold,
         minPointers |-> t.minPointers, maxPointers |-> t.maxPointers,
         preventIf |-> t.preventIf], overrides))

Clone(t, overrides) ==
    IF t.kind = "pan" THEN PanClone(t, overrides) ELSE PinchClone(t, overrides)

\* ------------------------------------------------- the tracker singleton
\* the options of new GestureManager({gestures}): root, touchAction and passive
\* are undefined
NoTrackerOptions == [root |-> None, touchAction |-> None, passive |-> None]

\* the PointerManager constructor: the configuration the tracker keeps
NewPointerManager(options) ==
    [root |-> IF options.root = None THEN "documentElement" ELSE options.root[1],
     touchAction |-> IF options.touchAction \in {None, Some("")} THEN "auto"
                     ELSE options.touchAction[1],
     passive |-> options.passive # Some(FALSE)]

\* a getInstance that builds a new tracker whenever it is given options
getInstanceReconfigures(instance, options) ==
    IF options # None
    THEN [instance |-> Some(NewPointerManager(options[1])), threw |-> FALSE]
    ELSE [instance |-> instance, threw |-> instance = None]

\* PointerManager.getInstance(options?): the instance after the call, and
\* whether the call threw; options is None when the argument is omitted
getInstance(instance, options) ==
    IF instance = None /\ options # None
    THEN [instance |-> Some(NewPointerManager(options[1])), threw |-> FALSE]
    ELSE IF instance = None
    THEN [instance |-> None, threw |-> TRUE]
    ELSE [instance |-> instance, threw |-> FALSE]

\* ---------------------------------------------------------- GestureManager
\* m is the state a coordinator call works on:
\* [elementGestureMap, gestures, gestureHandlers, activeGestures, proto,
\*  pointerManager, thrown]; thrown: an exception has ended the call

\* gesture.init(element): bind the element and subscribe to the PointerManager
GestureInit(m, gesture, element) ==
    LET i == Len(m.gestures) + 1 IN
    [m EXCEPT !.gestures = Append(@, [gesture EXCEPT !.element = element]),
              !.gestureHandlers = Append(@, i),
              !.proto = Append(@, "closed")]

\* gesture.destroy(): resetState(), then unsubscribe from the PointerManager
GestureDestroy(m, i) ==
    LET g == m.gestures[i]
        reset == IF g.kind = "pan" THEN PanResetState(m, i) ELSE PinchResetState(m, i)
    IN [reset EXCEPT !.gestures[i].destroyed = TRUE,
                     !.gestureHandlers = SelectSeq(@, LAMBDA h : h # i)]

unregisterElementFound(m, gestureName, element) ==
    /\ element \in DOMAIN m.elementGestureMap
    /\ gestureName \in DOMAIN m.elementGestureMap[element]

\* unregisterElement, once the gesture is found
unregisterFound(m, gestureName, element) ==
    LET destroyed == GestureDestroy(m, m.elementGestureMap[element][gestureName])
        elementGestures == MapDelete(m.elementGestureMap[element], gestureName)
    IN [destroyed EXCEPT
           !.activeGestures = RegistryUnregisterElement(@, element),
           !.elementGestureMap =
               IF DOMAIN elementGestures = {} THEN MapDelete(@, element)
               ELSE MapSet(@, element, elementGestures)]

\* a coordinator that clears the element's registry records before it looks
\* for the gesture
unregisterElementClearsFirst(m, gestureName, element) ==
    IF ~unregisterElementFound(m, gestureName, element)
    THEN [m EXCEPT !.activeGestures = RegistryUnregisterElement(@, element)]
    ELSE unregisterFound(m, gestureName, element)

unregisterElement(m, gestureName, element) ==
    IF ~unregisterElementFound(m, gestureName, element) THEN m
    ELSE unregisterFound(m, gestureName, element)

\* _registerSingleGesture, once the template is found.  The element's inner
\* map is looked up once, before a replaced gesture is unregistered: when that
\* unregistration removes the element from elementGestureMap, the new instance
\* is stored in the detached inner map only.
registerKnownGesture(m, templates, gestureName, element, overrides) ==
    LET had == element \in DOMAIN m.elementGestureMap
        replaced == had /\ gestureName \in DOMAIN m.elementGestureMap[element]
        m1 == IF replaced THEN unregisterElement(m, gestureName, element) ELSE m
        detached == replaced /\ element \notin DOMAIN m1.elementGestureMap
        m2 == GestureInit(m1, Clone(templates[gestureName], overrides), element)
        i == Len(m2.gestures)
    IN IF getInstance(m.pointerManager, None).threw
       THEN \* init throws: the clone is lost, the element keeps the map made for it
            [m1 EXCEPT !.thrown = TRUE,
                       !.elementGestureMap =
                           IF had THEN @ ELSE MapSet(@, element, EmptyMap)]
       ELSE IF detached THEN m2
       ELSE [m2 EXCEPT !.elementGestureMap =
               MapSet(@, element,
                   MapSet(IF element \in DOMAIN @ THEN @[element] ELSE EmptyMap,
                          gestureName, i))]

\* a coordinator that creates the element's map before it looks for the template
registerSingleGestureMapFirst(m, templates, gestureName, element, overrides) ==
    IF gestureName \notin DOMAIN templates
    THEN [m EXCEPT !.elementGestureMap =
            IF element \in DOMAIN @ THEN @ ELSE MapSet(@, element, EmptyMap)]
    ELSE registerKnownGesture(m, templates, gestureName, element, overrides)

\* _registerSingleGesture: nothing happens for a name without template
registerSingleGesture(m, templates, gestureName, element, overrides) ==
    IF gestureName \notin DOMAIN templates THEN m
    ELSE registerKnownGesture(m, templates, gestureName, element, overrides)

\* what _registerSingleGesture returns
registerSingleGestureResult(templates, gestureName) == gestureName \in DOMAIN templates

RECURSIVE registerElement(_, _, _, _, _)
registerElement(m, templates, gestureNames, element, options) ==
    IF gestureNames = <<>> \/ m.thrown THEN m
    ELSE registerElement(
            registerSingleGesture(m, templates, Head(gestureNames), element,
                IF Head(gestureNames) \in DOMAIN options THEN options[Head(gestureNames)]
                ELSE EmptyMap),
            templates, Tail(gestureNames), element, options)

RECURSIVE unregisterAll(_, _, _)
unregisterAll(m, element, instances) ==
    IF instances = <<>> THEN m
    ELSE unregisterAll(
            [GestureDestroy(m, Head(instances)) EXCEPT
                !.activeGestures = RegistryUnregisterElement(@, element)],
            element, Tail(instances))

\* a coordinator that drops the instances of the element without resetting
\* them and without clearing the element's registry records
unregisterAllGesturesDropped(m, element) ==
    IF element \notin DOMAIN m.elementGestureMap THEN m
    ELSE LET dropped == Values(m.elementGestureMap[element]) IN
         [m EXCEPT !.elementGestureMap = MapDelete(@, element),
                   !.gestures = [k \in DOMAIN @ |->
                                   IF k \in dropped THEN [@[k] EXCEPT !.destroyed = TRUE]
                                   ELSE @[k]],
                   !.gestureHandlers = SelectSeq(@, LAMBDA h : h \notin dropped)]

unregisterAllGestures(m, element) ==
    IF element \notin DOMAIN m.elementGestureMap THEN m
    ELSE [unregisterAll(m, element, SetToSeq(Values(m.elementGestureMap[element])))
            EXCEPT !.elementGestureMap = MapDelete(@, element)]

\* ------------------------------------------------------------ the actions
InRange(total) == IsFinite(total) => Abs(total[1]) <= MaxTotal * total[2]

\* the accumulated totals stay within the bounds of the model
TotalsBounded(gs) ==
    \A i \in 1..Len(gs) :
        IF gs[i].kind = "pan"
        THEN InRange(gs[i].state.totalDeltaX) /\ InRange(gs[i].state.totalDeltaY)
        ELSE /\ Abs(gs[i].state.totalScale[1]) <= MaxScaleTerm
             /\ gs[i].state.totalScale[2] <= MaxScaleTerm
             /\ Abs(gs[i].state.lastScale[1]) <= MaxScaleTerm
             /\ gs[i].state.lastScale[2] <= MaxScaleTerm

Pass == [gestures |-> gestures, activeGestures |-> activeGestures,
         emitted |-> <<>>, proto |-> proto, seen |-> <<>>]

Manager == [elementGestureMap |-> elementGestureMap, gestures |-> gestures,
            gestureHandlers |-> gestureHandlers, activeGestures |-> activeGestures,
            proto |-> proto, pointerManager |-> pointerManager, thrown |-> FALSE]

\* a tracker that keeps a lifted pointer in the map
PointersKept(updated, event) == updated

\* this.pointers when handlePointerEvent returns
PointersAfterEvent(updated, event) ==
    IF event.type \in {"pointerup", "pointercancel"}
    THEN MapDelete(updated, event.pointerId)
    ELSE updated

\* a tracker that removes a lifted pointer before it notifies
NotifiedAfterRemoval(current, event) ==
    PointersAfterEvent(MapSet(current, event.pointerId, createPointerData(event)), event)

\* the map the handlers are handed on an event: this.pointers after the update
NotifiedPointers(current, event) ==
    MapSet(current, event.pointerId, createPointerData(event))

\* PointerManager.handlePointerEvent
handlePointerEvent(event) ==
    LET updated == MapSet(pointers, event.pointerId, createPointerData(event)) IN
    \E st \in {notifyHandlers(Pass, gestureHandlers,
                              Values(NotifiedPointers(pointers, event)), event)} :
       /\ TotalsBounded(st.gestures)
       /\ pointers' = PointersAfterEvent(updated, event)
       /\ gestures' = st.gestures
       /\ activeGestures' = st.activeGestures
       /\ emitted' = st.emitted
       /\ proto' = st.proto
       /\ lastNotify' = st.seen
       /\ lastOp' = [op |-> event.type, arg |-> event, result |-> NULL]
       /\ now' = event.timeStamp
       /\ UNCHANGED <<env, gestureHandlers, pointerManager, gestureTemplates,
                       elementGestureMap>>

PointerEvent ==
    \E type \in env.types, pointerId \in DOMAIN env.xs, target \in env.targets,
       dt \in env.dts :
        \E x \in env.xs[pointerId], y \in env.ys :
            /\ pointerManager # None
            /\ now + dt <= MaxTime
            /\ env.wellFormed => ((type = "pointerdown") <=> (pointerId \notin DOMAIN pointers))
            /\ handlePointerEvent(
                  [type |-> type, pointerId |-> pointerId, clientX |-> x, clientY |-> y,
                   target |-> target, timeStamp |-> now + dt, forceReset |-> FALSE])

\* a tracker that hands the pointers over as they are
InterruptedUnstamped(current) == current

\* the pointers at an interrupt: each is given the type pointercancel
InterruptedPointers(current) ==
    [k \in DOMAIN current |-> [current[k] EXCEPT !.type = "pointercancel"]]

\* PointerManager.handleInterruptEvents (blur, contextmenu).  The synthetic
\* pointercancel event is never dispatched on a node: it has no target.
handleInterruptEvents(timeStamp) ==
    LET cancelEvent == [type |-> "pointercancel", pointerId |-> 0, clientX |-> 0,
                        clientY |-> 0, target |-> NULL, timeStamp |-> timeStamp,
                        forceReset |-> TRUE]
        updated == InterruptedPointers(pointers)
    IN \E st \in {notifyHandlers(Pass, gestureHandlers, Values(updated), cancelEvent)} :
       /\ pointers' = EmptyMap
       /\ gestures' = st.gestures
       /\ activeGestures' = st.activeGestures
       /\ emitted' = st.emitted
       /\ proto' = st.proto
       /\ lastNotify' = st.seen
       /\ lastOp' = [op |-> "interrupt", arg |-> cancelEvent, result |-> NULL]
       /\ now' = timeStamp
       /\ UNCHANGED <<env, gestureHandlers, pointerManager, gestureTemplates,
                       elementGestureMap>>

Interrupt ==
    \E dt \in env.dts :
        /\ pointerManager # None
        /\ now + dt <= MaxTime
        /\ handleInterruptEvents(now + dt)

SetManager(m) ==
    /\ elementGestureMap' = m.elementGestureMap
    /\ gestures' = m.gestures
    /\ gestureHandlers' = m.gestureHandlers
    /\ activeGestures' = m.activeGestures
    /\ proto' = m.proto
    /\ lastNotify' = <<>>
    /\ emitted' = <<>>
    /\ UNCHANGED <<env, now, pointers, pointerManager, gestureTemplates>>

\* GestureManager.registerElement(gestureNames, element, options)
RegisterElement ==
    \E gestureNames \in env.nameLists, element \in env.elements, options \in env.options :
        /\ Len(gestures) + Len(gestureNames) <= MaxInstances
        /\ \E m \in {registerElement(Manager, gestureTemplates, gestureNames, element,
                                     options)} : SetManager(m)
        /\ lastOp' = [op |-> "registerElement",
                      arg |-> [gestureNames |-> gestureNames, element |-> element,
                               options |-> options],
                      result |-> [k \in 1..Len(gestureNames) |->
                                    registerSingleGestureResult(gestureTemplates,
                                                                gestureNames[k])],
                      threw |-> registerElement(Manager, gestureTemplates, gestureNames,
                                                element, options).thrown]

\* GestureManager.unregisterElement(gestureName, element)
UnregisterElement ==
    \E gestureName \in env.names, element \in env.elements :
        /\ \E m \in {unregisterElement(Manager, gestureName, element)} : SetManager(m)
        /\ lastOp' = [op |-> "unregisterElement",
                      arg |-> [gestureName |-> gestureName, element |-> element],
                      result |-> unregisterElementFound(Manager, gestureName, element)]

\* GestureManager.unregisterAllGestures(element)
UnregisterAllGestures ==
    \E element \in env.elements :
        /\ \E m \in {unregisterAllGestures(Manager, element)} : SetManager(m)
        /\ lastOp' = [op |-> "unregisterAllGestures", arg |-> [element |-> element],
                      result |-> NULL]

Next ==
    \/ PointerEvent
    \/ Interrupt
    \/ RegisterElement
    \/ UnregisterElement
    \/ UnregisterAllGestures

\* ------------------------------------------------------- the initial state
PanTemplate ==
    [kind |-> "pan", name |-> "pan", preventDefault |-> FALSE, stopPropagation |-> FALSE,
     preventIf |-> {}, threshold |-> 10, minPointers |-> 1, maxPointers |-> 2,
     direction |-> AllDirections]

PinchTemplate ==
    [kind |-> "pinch", name |-> "pinch", preventDefault |-> FALSE, stopPropagation |-> FALSE,
     preventIf |-> {}, threshold |-> 0, minPointers |-> 2, maxPointers |-> 10]

FreshManager ==
    [elementGestureMap |-> EmptyMap, gestures |-> <<>>, gestureHandlers |-> <<>>,
     activeGestures |-> {}, proto |-> <<>>,
     pointerManager |-> getInstance(None, Some(NoTrackerOptions)).instance,
     thrown |-> FALSE]

RECURSIVE Registered(_, _, _)
Registered(m, templates, calls) ==
    IF calls = <<>> THEN m
    ELSE Registered(
            registerElement(m, templates, Head(calls).gestureNames, Head(calls).element,
                            Head(calls).options),
            templates, Tail(calls))

\* after new GestureManager({gestures: templates}) and the registerElement calls
\* of the page's set-up code: no pointer is down, nothing was emitted
InitWith(e, templates, calls) ==
    LET m == Registered(FreshManager, templates, calls) IN
    /\ env = e
    /\ now = 0
    /\ pointers = EmptyMap
    /\ gestureHandlers = m.gestureHandlers
    /\ pointerManager = m.pointerManager
    /\ activeGestures = m.activeGestures
    /\ gestureTemplates = templates
    /\ elementGestureMap = m.elementGestureMap
    /\ gestures = m.gestures
    /\ lastNotify = <<>>
    /\ emitted = <<>>
    /\ proto = m.proto
    /\ lastOp = [op |-> "new", arg |-> NULL, result |-> NULL]

Templates == [n \in {"pan", "pinch"} |-> IF n = "pan" THEN PanTemplate ELSE PinchTemplate]

Call(gestureNames, element, options) ==
    [gestureNames |-> gestureNames, element |-> element, options |-> options]

\* the coordinator and the tracker together, nothing registered at first.
\* wellFormed: the stream of a touch screen, a down only for a pointer that is
\* up, a move, up or cancel only for a pointer that is down
Init ==
    InitWith([wellFormed |-> TRUE, types |-> EventTypes,
              xs |-> [id \in PointerIds |-> {0, 20}], ys |-> {0},
              targets |-> {"t1"}, dts |-> {0},
              elements |-> {"t1"}, names |-> {"pan", "pinch"},
              nameLists |-> {<<"pan", "pinch">>}, options |-> {EmptyMap}],
             Templates, <<>>)

Spec == Init /\ [][Next]_vars

\* the tracker and the recognizers alone: no coordinator call after set-up
NextEvents ==
    \/ PointerEvent
    \/ Interrupt

\* pan and pinch registered on t1, under any stream of pointer events (a mouse
\* moves without being pressed)
InitTracker ==
    InitWith([wellFormed |-> FALSE, types |-> EventTypes,
              xs |-> [id \in PointerIds |-> {0, 20}], ys |-> {0},
              targets |-> {"t1"}, dts |-> {0},
              elements |-> {"t1"}, names |-> {"pan", "pinch"},
              nameLists |-> {}, options |-> {EmptyMap}],
             Templates, <<Call(<<"pan", "pinch">>, "t1", EmptyMap)>>)

SpecTracker == InitTracker /\ [][NextEvents]_vars

\* pan and pinch registered on t1, under the pointer streams of a touch screen
InitTouch ==
    InitWith([wellFormed |-> TRUE, types |-> EventTypes,
              xs |-> [id \in PointerIds |-> {0, 20}], ys |-> {0},
              targets |-> {"t1"}, dts |-> {0},
              elements |-> {"t1"}, names |-> {"pan", "pinch"},
              nameLists |-> {}, options |-> {EmptyMap}],
             Templates, <<Call(<<"pan", "pinch">>, "t1", EmptyMap)>>)

SpecTouch == InitTouch /\ [][NextEvents]_vars

\* pan and pinch on t1 with exclusion configured both ways: pan lists pinch in
\* preventIf, pinch lists pan
InitExclusion ==
    InitWith([wellFormed |-> TRUE, types |-> EventTypes,
              xs |-> [id \in PointerIds |-> {0, 20}], ys |-> {0},
              targets |-> {"t1"}, dts |-> {0},
              elements |-> {"t1"}, names |-> {"pan", "pinch"},
              nameLists |-> {}, options |-> {EmptyMap}],
             Templates,
             <<Call(<<"pan", "pinch">>, "t1",
                    [pan |-> [preventIf |-> {"pinch"}],
                     pinch |-> [preventIf |-> {"pan"}]])>>)

SpecExclusion == InitExclusion /\ [][NextEvents]_vars

\* a single-finger pan (minPointers = maxPointers = 1), as the demo page sets it up
InitPanSingle ==
    InitWith([wellFormed |-> TRUE, types |-> EventTypes,
              xs |-> [id \in PointerIds |-> {0, 20}], ys |-> {0, 20},
              targets |-> {"t1"}, dts |-> {0},
              elements |-> {"t1"}, names |-> {"pan"},
              nameLists |-> {}, options |-> {EmptyMap}],
             Templates,
             <<Call(<<"pan">>, "t1", [pan |-> [maxPointers |-> 1]])>>)

SpecPanSingle == InitPanSingle /\ [][NextEvents]_vars

\* a pinch alone: pointer 1 rests at 0, pointer 2 is at distance 100, 150 or 225
InitPinchScale ==
    InitWith([wellFormed |-> TRUE, types |-> EventTypes,
              xs |-> [id \in PointerIds |-> IF id = 1 THEN {0} ELSE {100, 150, 225}], ys |-> {0},
              targets |-> {"t1"}, dts |-> {0},
              elements |-> {"t1"}, names |-> {"pinch"},
              nameLists |-> {}, options |-> {EmptyMap}],
             Templates,
             <<Call(<<"pinch">>, "t1", EmptyMap)>>)

SpecPinchScale == InitPinchScale /\ [][NextEvents]_vars

\* ------------------------------------------------------------ the properties
\* an instance is active: Pan by its own state.active, Pinch by the registry
GestureActive(gs, reg, i) ==
    IF gs[i].kind = "pan" THEN gs[i].state.active
    ELSE isGestureActive(reg, gs[i].element, i)

\* the emissions of instance i with the given phase in the log of one step
Emissions(log, i, phase) ==
    {k \in 1..Len(log) : log[k].gesture = i /\ log[k].phase = phase}

Live == {i \in 1..Len(gestures) : ~gestures[i].destroyed}

LiftOps == {"pointerup", "pointercancel"}

\* C1: every instance that is active when the tracker processes an interrupt
\* emits exactly one cancel in that step and is inactive after it.
C1_InterruptCancelsEveryActive ==
    [][lastOp'.op = "interrupt" =>
         \A i \in Live :
            GestureActive(gestures, activeGestures, i) =>
               /\ Cardinality(Emissions(emitted', i, "cancel")) = 1
               /\ ~GestureActive(gestures', activeGestures', i)]_vars

\* C2: while an instance B named in A.preventIf stays active on A's target,
\* A emits no start and does not become active, for every pair of recognizers.
C2_PreventIfExcludes ==
    [][\A a \in Live, b \in Live :
          (/\ a # b
           /\ gestures[b].name \in gestures[a].preventIf
           /\ gestures[a].element = gestures[b].element
           /\ GestureActive(gestures, activeGestures, b)
           /\ GestureActive(gestures', activeGestures', b))
          => /\ Emissions(emitted', a, "start") = {}
             /\ (GestureActive(gestures', activeGestures', a)
                   => GestureActive(gestures, activeGestures, a))]_vars

\* C3: the registry holds (target, instance) exactly when the instance is
\* between its start and its end or cancel, for Pan as well as for Pinch.
C3_RegistryIffActive ==
    \A i \in Live :
        isGestureActive(activeGestures, gestures[i].element, i) <=> proto[i] = "open"

\* C4: the emissions of every instance follow (start ongoing* (end | cancel))*,
\* whatever the pointer events, interrupts and coordinator calls.
C4_PhaseOrder ==
    \A i \in Live : proto[i] # "bad"

\* C5: once an up or cancel for pointer p has been processed, the tracker's
\* pointer set does not contain p.
C5_LiftedPointerRemoved ==
    lastOp.op \in LiftOps => lastOp.arg.pointerId \notin DOMAIN pointers

\* a pointer was lifted while another one stays down: only the lifted one is gone
C5_Witness ==
    /\ lastOp.op = "pointercancel"
    /\ lastOp.arg.pointerId \notin DOMAIN pointers
    /\ DOMAIN pointers # {}

\* C6: on an up or cancel for p every subscriber is notified, with a pointer
\* set that still contains p stamped with the up or cancel type, and p is
\* removed only after the subscribers have returned.
C6_NotifiedBeforeRemoval ==
    lastOp.op \in LiftOps =>
        /\ [k \in 1..Len(lastNotify) |-> lastNotify[k].handler] = gestureHandlers
        /\ \A k \in 1..Len(lastNotify) :
              \E p \in lastNotify[k].pointers :
                 p.pointerId = lastOp.arg.pointerId /\ p.type = lastOp.op
        /\ lastOp.arg.pointerId \notin DOMAIN pointers

\* both recognizers were handed a lifted pointer next to one that stays down
C6_Witness ==
    /\ lastOp.op = "pointerup"
    /\ Len(lastNotify) = 2
    /\ \A k \in 1..2 :
          /\ Cardinality(lastNotify[k].pointers) = 2
          /\ \E p \in lastNotify[k].pointers :
                p.pointerId = lastOp.arg.pointerId /\ p.type = "pointerup"
    /\ Cardinality(DOMAIN pointers) = 1

\* C7: a move for a pointer id that is not in the pointer set (no down since
\* the last up, cancel or interrupt) leaves the pointer set unchanged.
C7_MoveWithoutDownIsNoOp ==
    [][(lastOp'.op = "pointermove" /\ lastOp'.arg.pointerId \notin DOMAIN pointers)
          => pointers' = pointers]_vars

\* the pointers of the map that are on the element of instance i
RelevantIn(map, i) == RelevantPointers(Values(map), gestures[i].element)

\* the distance between two numbers is at most bound
Within(a, b, bound) == NumGeq(bound, NumAbs(NumSub(a, b)))

\* the motion of the moved pointer in the frame of the step
FrameMotionX == Num(Abs(lastOp'.arg.clientX - pointers[lastOp'.arg.pointerId].clientX))

FrameMotionY == Num(Abs(lastOp'.arg.clientY - pointers[lastOp'.arg.pointerId].clientY))

\* C8: with Pan active on more than minPointers pointers, a lift that leaves at
\* least minPointers of them does not end the gesture, and the move that
\* follows the lift emits a delta and a total delta that differ from the last
\* emitted ones (delta = lastCentroid - startCentroid, total = totalDelta of
\* the state before the move) by no more than the motion of that frame.
C8_PartialLiftRebases ==
    [][\A i \in Live :
          (/\ gestures[i].kind = "pan"
           /\ gestures[i].state.active
           /\ Cardinality(RelevantIn(pointers, i)) >= gestures[i].minPointers)
          =>
          /\ (/\ lastOp'.op \in LiftOps
              /\ lastOp'.arg.pointerId \in DOMAIN pointers
              /\ Cardinality(RelevantIn(pointers', i)) >= gestures[i].minPointers)
             => /\ gestures'[i].state.active
                /\ Emissions(emitted', i, "end") = {}
                /\ Emissions(emitted', i, "cancel") = {}
          /\ (/\ lastOp.op \in LiftOps
              /\ lastOp'.op = "pointermove"
              /\ lastOp'.arg.pointerId \in DOMAIN pointers)
             => LET s == gestures[i].state IN
                /\ Emissions(emitted', i, "ongoing") # {}
                /\ \A k \in Emissions(emitted', i, "ongoing") :
                      LET d == emitted'[k].detail IN
                      /\ Within(d.deltaX, NumSub(s.lastCentroid[1].x, s.startCentroid[1].x),
                                FrameMotionX)
                      /\ Within(d.deltaY, NumSub(s.lastCentroid[1].y, s.startCentroid[1].y),
                                FrameMotionY)
                      /\ Within(d.totalDeltaX, s.totalDeltaX, FrameMotionX)
                      /\ Within(d.totalDeltaY, s.totalDeltaY, FrameMotionY)]_vars

\* the pointers instance i was handed in the step that led to the state
Handed(log, i) ==
    UNION {RelevantPointers(log[k].pointers, gestures[i].element) :
              k \in {j \in 1..Len(log) : log[j].handler = i}}

\* C9: when the number of relevant pointers leaves [minPointers, maxPointers]
\* while Pan is active, the total delta of the instance is not reset.
C9_TotalSurvivesCountChange ==
    [][\A i \in Live :
          (/\ gestures[i].kind = "pan"
           /\ gestures[i].state.active
           /\ lastOp'.op \in EventTypes
           /\ Cardinality(Handed(lastNotify', i)) \notin
                 gestures[i].minPointers..gestures[i].maxPointers)
          => /\ gestures'[i].state.totalDeltaX = gestures[i].state.totalDeltaX
             /\ gestures'[i].state.totalDeltaY = gestures[i].state.totalDeltaY]_vars

\* C10 as stated: every move of an active Pinch emits as scale the ratio of the
\* current distance to the distance of the previous move (of the start, for
\* the first move), and multiplies the total scale by that ratio.
C10_ScaleRelativeToPreviousMove ==
    [][\A i \in Live :
          (gestures[i].kind = "pinch" /\ Truthy(gestures[i].state.lastDistance))
          => \A k \in Emissions(emitted', i, "ongoing") :
                LET d == emitted'[k].detail
                    ratio == NumDiv(d.distance, gestures[i].state.lastDistance)
                IN /\ d.scale = ratio
                   /\ d.totalScale = NumMul(gestures[i].state.totalScale, ratio)]_vars

\* C10 amended: every move of an active Pinch emits as scale the ratio of the
\* current distance to the distance at the start of the gesture, and
\* multiplies the total scale by the ratio of the current distance to the
\* distance of the previous move.
C10_ScaleRelativeToStart ==
    [][\A i \in Live :
          (gestures[i].kind = "pinch" /\ Truthy(gestures[i].state.lastDistance))
          => \A k \in Emissions(emitted', i, "ongoing") :
                LET d == emitted'[k].detail
                    s == gestures[i].state
                IN /\ d.scale = NumDiv(d.distance, s.startDistance)
                   /\ d.totalScale =
                         NumMul(s.totalScale, NumDiv(d.distance, s.lastDistance))]_vars

\* started at distance 100 and moved on to 225: scale 2.25, total scale 2.25
C10_Witness ==
    \E k \in 1..Len(emitted) :
        /\ emitted[k].phase = "ongoing"
        /\ emitted[k].detail.distance = Num(225)
        /\ emitted[k].detail.scale = <<9, 4>>
        /\ emitted[k].detail.totalScale = <<9, 4>>
        /\ gestures[emitted[k].gesture].state.startDistance = Num(100)

\* a pinch that is configured to need three pointers
InitPinchThree ==
    InitWith([wellFormed |-> TRUE, types |-> EventTypes,
              xs |-> [id \in PointerIds |-> {0, 20}], ys |-> {0},
              targets |-> {"t1"}, dts |-> {0},
              elements |-> {"t1"}, names |-> {"pinch"},
              nameLists |-> {}, options |-> {EmptyMap}],
             Templates,
             <<Call(<<"pinch">>, "t1", [pinch |-> [minPointers |-> 3]])>>)

SpecPinchThree == InitPinchThree /\ [][NextEvents]_vars

\* the relevant pointers of instance i in the map that are still pressed
Pressed(map, i) == {p \in RelevantIn(map, i) : ~Released(p)}

\* C11: while fewer than minPointers relevant pointers are pressed, a Pinch
\* emits no start and does not become active, whatever its minPointers.
C11_PinchStartNeedsMinPointers ==
    [][\A i \in Live :
          (/\ gestures[i].kind = "pinch"
           /\ Cardinality(Pressed(pointers', i)) < gestures[i].minPointers)
          => /\ Emissions(emitted', i, "start") = {}
             /\ (GestureActive(gestures', activeGestures', i)
                   => GestureActive(gestures, activeGestures, i))]_vars

\* the coordinator under repeated registration: pinch alone, a name no template
\* exists for, and pan next to that name; one pointer position, so that the
\* recognizers stay simple
InitRegister ==
    InitWith([wellFormed |-> TRUE, types |-> {"pointerdown", "pointerup"},
              xs |-> [id \in PointerIds |-> {0}], ys |-> {0},
              targets |-> {"t1"}, dts |-> {0},
              elements |-> {"t1"}, names |-> {"pan", "pinch"},
              nameLists |-> {<<"pinch">>, <<"rotate">>, <<"rotate", "pan">>},
              options |-> {EmptyMap}],
             Templates, <<>>)

SpecRegister == InitRegister /\ [][Next]_vars

\* the coordinator maps (name, element) to instance i
Recorded(map, gs, i) ==
    /\ gs[i].element \in DOMAIN map
    /\ gs[i].name \in DOMAIN map[gs[i].element]
    /\ map[gs[i].element][gs[i].name] = i

\* C12: registering a name that is registered on the target destroys the old
\* instance and leaves the coordinator mapping (name, target) to a new live
\* instance, also when the name was the only gesture of the target.
C12_ReRegisterReplaces ==
    [][lastOp'.op = "registerElement" =>
         LET element == lastOp'.arg.element
             names == lastOp'.arg.gestureNames
         IN \A k \in 1..Len(names) :
               (/\ element \in DOMAIN elementGestureMap
                /\ names[k] \in DOMAIN elementGestureMap[element])
               => LET old == elementGestureMap[element][names[k]] IN
                  /\ gestures'[old].destroyed
                  /\ \E i \in (Len(gestures) + 1)..Len(gestures') :
                        /\ gestures'[i].name = names[k]
                        /\ ~gestures'[i].destroyed
                        /\ Recorded(elementGestureMap', gestures', i)]_vars

\* C13: each (name, target) pair has at most one live instance, and every
\* live instance is recorded in the coordinator's target map.
C13_OneRecordedInstancePerPair ==
    /\ \A i \in Live, j \in Live :
          (gestures[i].name = gestures[j].name /\ gestures[i].element = gestures[j].element)
          => i = j
    /\ \A i \in Live : Recorded(elementGestureMap, gestures, i)

\* C14: unregister(name, target) removes only the registry membership of the
\* instance it destroys: the registry records and the active status of the
\* other instances are as before.
C14_UnregisterKeepsOthers ==
    [][lastOp'.op = "unregisterElement" =>
         \A j \in 1..Len(gestures) :
            ~gestures'[j].destroyed =>
               /\ isGestureActive(activeGestures', gestures[j].element, j)
                    <=> isGestureActive(activeGestures, gestures[j].element, j)
               /\ GestureActive(gestures', activeGestures', j)
                    <=> GestureActive(gestures, activeGestures, j)]_vars

\* no live instance carries the name on the element
NotRegistered(gestureName, element) ==
    \A i \in Live : ~(gestures[i].name = gestureName /\ gestures[i].element = element)

\* C15: an unregister of a pair that is not registered (never registered, or
\* unregistered before), and an unregister that repeats the previous call,
\* returns false and changes neither the coordinator's map, nor the instances
\* and their subscriptions, nor the registry.
C15_UnregisterIdempotent ==
    [][lastOp'.op = "unregisterElement" =>
         ((\/ NotRegistered(lastOp'.arg.gestureName, lastOp'.arg.element)
           \/ (lastOp.op = "unregisterElement" /\ lastOp.arg = lastOp'.arg))
          => /\ lastOp'.result = FALSE
             /\ UNCHANGED <<elementGestureMap, activeGestures, gestures,
                            gestureHandlers, gestureTemplates>>)]_vars

\* unregister returned false for a pair that was unregistered before, while
\* another instance of the element is live and in the registry
C15_Witness ==
    /\ lastOp.op = "unregisterElement"
    /\ lastOp.result = FALSE
    /\ \E i \in 1..Len(gestures) :
          /\ gestures[i].destroyed
          /\ gestures[i].name = lastOp.arg.gestureName
          /\ gestures[i].element = lastOp.arg.element
    /\ \E j \in Live : isGestureActive(activeGestures, lastOp.arg.element, j)

Range(seq) == {seq[k] : k \in 1..Len(seq)}

\* the instances a step created
Created == (Len(gestures) + 1)..Len(gestures')

\* C16: registering a name that has no template reports failure and creates
\* no instance; when no name of the call has a template the coordinator's map
\* and the subscriptions are unchanged (no entry appears for the target); the
\* names of the call that have a template are registered all the same.
C16_UnknownTemplateIsNoOp ==
    [][lastOp'.op = "registerElement" =>
         LET element == lastOp'.arg.element
             names == lastOp'.arg.gestureNames
             known == {k \in 1..Len(names) : names[k] \in DOMAIN gestureTemplates}
         IN /\ \A k \in (1..Len(names)) \ known :
                  /\ lastOp'.result[k] = FALSE
                  /\ \A i \in Created : gestures'[i].name # names[k]
            /\ Cardinality(Created) = Cardinality(known)
            /\ known = {} => UNCHANGED <<elementGestureMap, gestures, gestureHandlers,
                                         activeGestures, gestureTemplates>>
            /\ \A k \in known :
                  /\ lastOp'.result[k] = TRUE
                  /\ \E i \in Created :
                        /\ gestures'[i].name = names[k]
                        /\ gestures'[i].element = element
                        /\ ~gestures'[i].destroyed
                        /\ i \in Range(gestureHandlers')]_vars

\* registerElement(['rotate', 'pan'], t1) reported the failure of rotate and
\* registered pan
C16_Witness ==
    /\ lastOp.op = "registerElement"
    /\ lastOp.arg.gestureNames = <<"rotate", "pan">>
    /\ lastOp.result = <<FALSE, TRUE>>
    /\ \E i \in Live : gestures[i].name = "pan" /\ Recorded(elementGestureMap, gestures, i)
    /\ \A i \in 1..Len(gestures) : gestures[i].name # "rotate"

\* C19: an active Pan that a lifted pointer terminates reports cancel when the
\* terminating event is a pointercancel and end when it is a pointerup.
C19_PanLiftPhaseFollowsEvent ==
    [][\A i \in Live :
          (/\ gestures[i].kind = "pan"
           /\ lastOp'.op \in LiftOps
           /\ GestureActive(gestures, activeGestures, i)
           /\ ~GestureActive(gestures', activeGestures', i))
          => IF lastOp'.op = "pointercancel"
             THEN /\ Cardinality(Emissions(emitted', i, "cancel")) = 1
                  /\ Emissions(emitted', i, "end") = {}
             ELSE /\ Cardinality(Emissions(emitted', i, "end")) = 1
                  /\ Emissions(emitted', i, "cancel") = {}]_vars

\* a pan that is configured to need two pointers
InitPanTwo ==
    InitWith([wellFormed |-> TRUE, types |-> EventTypes,
              xs |-> [id \in PointerIds |-> {0, 20}], ys |-> {0},
              targets |-> {"t1"}, dts |-> {0},
              elements |-> {"t1"}, names |-> {"pan"},
              nameLists |-> {}, options |-> {EmptyMap}],
             Templates,
             <<Call(<<"pan">>, "t1", [pan |-> [minPointers |-> 2]])>>)

SpecPanTwo == InitPanTwo /\ [][NextEvents]_vars

\* C20: an active Pan terminates (emits end or cancel and is inactive) at the
\* very pointerup or pointercancel that leaves fewer than minPointers relevant
\* pointers pressed, also when some pointers stay pressed.
C20_PanEndsBelowMinPointers ==
    [][\A i \in Live :
          (/\ gestures[i].kind = "pan"
           /\ lastOp'.op \in LiftOps
           /\ GestureActive(gestures, activeGestures, i)
           /\ Cardinality(Pressed(pointers', i)) < gestures[i].minPointers)
          => /\ ~GestureActive(gestures', activeGestures', i)
             /\ Emissions(emitted', i, "end") \cup Emissions(emitted', i, "cancel") # {}]_vars

\* ------------------------------------------- the life cycle of the singletons
RECURSIVE unregisterElements(_, _)
unregisterElements(m, elements) ==
    IF elements = <<>> THEN m
    ELSE unregisterElements(unregisterAllGestures(m, Head(elements)), Tail(elements))

\* GestureManager.destroy(): every element of elementGestureMap is unregistered,
\* the templates and the map are cleared, the registry is emptied
destroy(m) ==
    [unregisterElements(m, SetToSeq(DOMAIN m.elementGestureMap)) EXCEPT
        !.elementGestureMap = EmptyMap,
        !.activeGestures = {}]

\* gestureManager.destroy()
Destroy ==
    /\ \E m \in {destroy(Manager)} :
          /\ elementGestureMap' = m.elementGestureMap
          /\ gestures' = m.gestures
          /\ gestureHandlers' = m.gestureHandlers
          /\ activeGestures' = m.activeGestures
          /\ proto' = m.proto
    /\ gestureTemplates' = EmptyMap
    /\ lastNotify' = <<>>
    /\ emitted' = <<>>
    /\ lastOp' = [op |-> "destroy", arg |-> NULL, result |-> NULL]
    /\ UNCHANGED <<env, now, pointers, pointerManager>>

\* new GestureManager({root, touchAction, passive, gestures}): the constructor
\* asks for the tracker with its options and stores the templates; the new
\* coordinator has registered nothing
NewGestureManager ==
    \E options \in env.trackerOptions :
        /\ pointerManager' = getInstance(pointerManager, Some(options)).instance
        /\ gestureTemplates' = Templates
        /\ elementGestureMap' = EmptyMap
        /\ lastNotify' = <<>>
        /\ emitted' = <<>>
        /\ lastOp' = [op |-> "new", arg |-> options, result |-> NULL]
        /\ UNCHANGED <<env, now, pointers, gestureHandlers, activeGestures, gestures,
                       proto>>

\* PointerManager.getInstance(options?), called by the page
GetInstance ==
    \E options \in {None} \cup {Some(o) : o \in env.trackerOptions} :
        /\ pointerManager' = getInstance(pointerManager, options).instance
        /\ lastNotify' = <<>>
        /\ emitted' = <<>>
        /\ lastOp' = [op |-> "getInstance", arg |-> options,
                      result |-> getInstance(pointerManager, options)]
        /\ UNCHANGED <<env, now, pointers, gestureHandlers, activeGestures,
                       gestureTemplates, elementGestureMap, gestures, proto>>

\* PointerManager.getInstance().destroy(): the listeners are removed, the
\* pointers and the handlers are cleared, the singleton is reset
PointerManagerDestroy ==
    /\ pointerManager # None
    /\ pointers' = EmptyMap
    /\ gestureHandlers' = <<>>
    /\ pointerManager' = None
    /\ lastNotify' = <<>>
    /\ emitted' = <<>>
    /\ lastOp' = [op |-> "pointerManagerDestroy", arg |-> NULL, result |-> NULL]
    /\ UNCHANGED <<env, now, activeGestures, gestureTemplates, elementGestureMap,
                   gestures, proto>>

NextLifecycle ==
    \/ PointerEvent
    \/ RegisterElement
    \/ Destroy
    \/ NewGestureManager
    \/ GetInstance
    \/ PointerManagerDestroy

\* two pages' worth of tracker options: the defaults, and a root with
\* touch-action none and active listeners
TrackerOptions ==
    {NoTrackerOptions,
     [root |-> Some("t1"), touchAction |-> Some("none"), passive |-> Some(FALSE)]}

\* new GestureManager({gestures: [pan, pinch]}) with nothing registered; the
\* page may build further coordinators, with either set of tracker options
InitLifecycle ==
    InitWith([wellFormed |-> TRUE, types |-> {"pointerdown", "pointerup"},
              xs |-> [id \in PointerIds |-> {0}], ys |-> {0},
              targets |-> {"t1"}, dts |-> {0},
              elements |-> {"t1"}, names |-> {"pan"},
              nameLists |-> {<<"pan">>}, options |-> {EmptyMap},
              trackerOptions |-> TrackerOptions],
             Templates, <<>>)

SpecLifecycle == InitLifecycle /\ [][NextLifecycle]_vars

\* C17: after the coordinator's destroy() it holds no template and no instance,
\* the registry is empty, and the tracker has no subscriber, no pointer and no
\* retained instance; a coordinator constructed next gives the tracker its own
\* configuration.
C17_DestroyResetsSingletons ==
    [][/\ lastOp'.op = "destroy" =>
            /\ gestureTemplates' = EmptyMap
            /\ elementGestureMap' = EmptyMap
            /\ activeGestures' = {}
            /\ gestureHandlers' = <<>>
            /\ pointers' = EmptyMap
            /\ pointerManager' = None
       /\ (lastOp.op = "destroy" /\ lastOp'.op = "new") =>
            pointerManager' = Some(NewPointerManager(lastOp'.arg))]_vars

\* C18: a request for the tracker without options while none exists throws and
\* creates none (from the page, or from the init of a gesture being
\* registered); the first request with options creates the tracker from them;
\* while a tracker exists every request, with options or without, returns it
\* and leaves its configuration, pointers and subscribers as they are.
C18_TrackerSingleton ==
    [][/\ lastOp'.op = "getInstance" =>
            IF pointerManager # None
            THEN /\ ~lastOp'.result.threw
                 /\ lastOp'.result.instance = pointerManager
                 /\ UNCHANGED <<pointerManager, pointers, gestureHandlers>>
            ELSE IF lastOp'.arg = None
            THEN /\ lastOp'.result.threw
                 /\ pointerManager' = None
            ELSE /\ ~lastOp'.result.threw
                 /\ pointerManager' = Some(NewPointerManager(lastOp'.arg[1]))
                 /\ lastOp'.result.instance = pointerManager'
       /\ (lastOp'.op = "new" /\ pointerManager # None) => UNCHANGED pointerManager
       /\ (/\ lastOp'.op = "registerElement"
           /\ pointerManager = None
           /\ Range(lastOp'.arg.gestureNames) \cap DOMAIN gestureTemplates # {})
          => /\ lastOp'.threw
             /\ pointerManager' = None
             /\ Created = {}]_vars

\* the tracker was destroyed while an instance lived, and a request without
\* options has just thrown
C18_Witness ==
    /\ lastOp.op = "getInstance"
    /\ lastOp.arg = None
    /\ lastOp.result.threw
    /\ pointerManager = None
    /\ Live # {}

\* a pan limited to the horizontal directions, threshold 10, under one finger:
\* pointer 1 moves over a grid that has a point below, on and above the
\* threshold, pointer 2 never touches
InitPanDirection ==
    InitWith([wellFormed |-> TRUE, types |-> EventTypes,
              xs |-> [id \in PointerIds |-> IF id = 1 THEN {0, 5, 10, 20} ELSE {}],
              ys |-> {0, 20},
              targets |-> {"t1"}, dts |-> {0},
              elements |-> {"t1"}, names |-> {"pan"},
              nameLists |-> {}, options |-> {EmptyMap}],
             Templates,
             <<Call(<<"pan">>, "t1", [pan |-> [direction |-> {"left", "right"}]])>>)

SpecPanDirection == InitPanDirection /\ [][NextEvents]_vars

\* the squared distance between two points
SquaredDistance(a, b) ==
    NumAdd(NumMul(NumSub(a.x, b.x), NumSub(a.x, b.x)),
           NumMul(NumSub(a.y, b.y), NumSub(a.y, b.y)))

\* the move of this step takes the centroid of instance i to at least its
\* threshold from the start centroid, in an allowed dominant direction
CrossesThreshold(i) ==
    LET start == gestures[i].state.startCentroid[1]
        current == calculateCentroid(RelevantIn(pointers', i))
    IN /\ NumGeq(SquaredDistance(current, start),
                 Num(gestures[i].threshold * gestures[i].threshold))
       /\ getDirection(start, current) \in gestures[i].direction

\* C21: a Pan that has a start centroid and is not active emits nothing on a
\* step, unless the step is a move of its pointers that takes the centroid to
\* distance >= threshold from the start centroid in an allowed dominant
\* direction; that move emits exactly one start, whose delta is the current
\* centroid minus the start centroid and whose direction is that direction.
C21_PanStartsAtThreshold ==
    [][\A i \in Live :
          (/\ gestures[i].kind = "pan"
           /\ ~GestureActive(gestures, activeGestures, i))
          => LET mine == {k \in 1..Len(emitted') : emitted'[k].gesture = i}
                 n == Cardinality(RelevantIn(pointers', i))
                 crossing ==
                     /\ lastOp'.op = "pointermove"
                     /\ gestures[i].state.startCentroid # None
                     /\ Contains(gestures[i].element, lastOp'.arg.target)
                     /\ n >= gestures[i].minPointers
                     /\ n <= gestures[i].maxPointers
                     /\ CrossesThreshold(i)
             IN IF crossing
                THEN /\ Cardinality(mine) = 1
                     /\ \A k \in mine :
                          LET start == gestures[i].state.startCentroid[1]
                              current == calculateCentroid(RelevantIn(pointers', i))
                          IN /\ emitted'[k].phase = "start"
                             /\ emitted'[k].detail.deltaX = NumSub(current.x, start.x)
                             /\ emitted'[k].detail.deltaY = NumSub(current.y, start.y)
                             /\ emitted'[k].detail.direction = getDirection(start, current)
                     /\ GestureActive(gestures', activeGestures', i)
                ELSE /\ mine = {}
                     /\ ~GestureActive(gestures', activeGestures', i)]_vars

\* the example: down at (0, 0), then a move to (20, 0) has just emitted start
\* with delta (20, 0) and direction right
C21_Witness ==
    /\ lastOp.op = "pointermove"
    /\ Len(emitted) = 1
    /\ emitted[1].phase = "start"
    /\ gestures[emitted[1].gesture].kind = "pan"
    /\ gestures[emitted[1].gesture].direction = {"left", "right"}
    /\ emitted[1].detail.deltaX = Num(20)
    /\ emitted[1].detail.deltaY = Num(0)
    /\ emitted[1].detail.direction = "right"

\* pan and pinch on t1, in a page where an event may also originate outside
\* t1 (on the body): a pointer pressed on t1 may be lifted outside it
InitOrigins ==
    InitWith([wellFormed |-> TRUE, types |-> EventTypes,
              xs |-> [id \in PointerIds |-> IF id = 1 THEN {0, 20} ELSE {20}], ys |-> {0},
              targets |-> {"t1", "body"}, dts |-> {0},
              elements |-> {"t1"}, names |-> {"pan", "pinch"},
              nameLists |-> {}, options |-> {EmptyMap}],
             Templates, <<Call(<<"pan", "pinch">>, "t1", EmptyMap)>>)

SpecOrigins == InitOrigins /\ [][NextEvents]_vars

\* C22: an interrupt makes every active Pan emit exactly one notification, a
\* cancel whose centroid is the last centroid the Pan recorded, and leaves it
\* inactive, whatever pointers the tracker holds.
C22_InterruptCancelsPan ==
    [][lastOp'.op = "interrupt" =>
          \A i \in Live :
              (gestures[i].kind = "pan" /\ GestureActive(gestures, activeGestures, i))
              => /\ Cardinality({k \in 1..Len(emitted') : emitted'[k].gesture = i}) = 1
                 /\ \A k \in Emissions(emitted', i, "cancel") :
                        emitted'[k].detail.centroid = gestures[i].state.lastCentroid[1]
                 /\ Cardinality(Emissions(emitted', i, "cancel")) = 1
                 /\ ~GestureActive(gestures', activeGestures', i)]_vars

\* an interrupt has just cancelled a Pan while the tracker held no pointer
C22_Witness ==
    /\ lastOp.op = "interrupt"
    /\ \E k \in 1..Len(emitted) :
          /\ gestures[emitted[k].gesture].kind = "pan"
          /\ emitted[k].phase = "cancel"
          /\ emitted[k].detail.pointers = {}

ActiveNames(gs, reg, element) == {gs[r[2]].name : r \in {e \in reg : e[1] = element}}

\* C24: every notification of a step carries activeGestures, the names the
\* registry reports on the emitter's target when it is emitted: every name
\* that is active before and after the step is in it, and every name in it is
\* active before or after the step.
C24_PayloadCarriesActiveGestures ==
    [][\A k \in 1..Len(emitted') :
          LET element == gestures[emitted'[k].gesture].element
              before == ActiveNames(gestures, activeGestures, element)
              after == ActiveNames(gestures', activeGestures', element)
          IN /\ "activeGestures" \in DOMAIN emitted'[k].detail
             /\ before \cap after \subseteq emitted'[k].detail.activeGestures
             /\ emitted'[k].detail.activeGestures \subseteq before \cup after]_vars

\* C25: a pointer event that originates outside the target of an instance
\* leaves the instance as it is, in or out of the registry as it was, and
\* makes it emit nothing; and the pointers a notification of a pointer event
\* lists are the handed pointers whose origin is inside the emitter's target.
C25_OutsideEventsIgnored ==
    [][lastOp'.op \in EventTypes =>
          /\ \A i \in Live :
                ~Contains(gestures[i].element, lastOp'.arg.target)
                => /\ gestures'[i] = gestures[i]
                   /\ isGestureActive(activeGestures', gestures[i].element, i)
                        <=> isGestureActive(activeGestures, gestures[i].element, i)
                   /\ \A k \in 1..Len(emitted') : emitted'[k].gesture # i
          /\ \A k \in 1..Len(emitted') :
                emitted'[k].detail.pointers =
                    Ids(RelevantPointers(Handed(lastNotify', emitted'[k].gesture),
                                         gestures[emitted'[k].gesture].element))]_vars

\* an event from outside t1 has just been processed while a pinch on t1 was
\* active and a pointer pressed on t1 was in the tracker
C25_Witness ==
    /\ lastOp.op \in EventTypes
    /\ lastOp.arg.target = "body"
    /\ \E i \in Live : gestures[i].element = "t1" /\ GestureActive(gestures, activeGestures, i)
    /\ \E id \in DOMAIN pointers : pointers[id].target = "t1"

\* the coordinator's teardown calls over two targets: a pinch on t1 and a
\* pinch on t2 are registered, pointers are pressed and lifted on either
NextTeardown ==
    \/ PointerEvent
    \/ RegisterElement
    \/ UnregisterElement
    \/ UnregisterAllGestures
    \/ Destroy

InitTeardown ==
    InitWith([wellFormed |-> TRUE, types |-> {"pointerdown", "pointerup"},
              xs |-> [id \in PointerIds |-> {0}], ys |-> {0},
              targets |-> {"t1", "t2"}, dts |-> {0},
              elements |-> {"t1", "t2"}, names |-> {"pinch"},
              nameLists |-> {<<"pinch">>}, options |-> {EmptyMap}],
             Templates,
             <<Call(<<"pinch">>, "t1", EmptyMap), Call(<<"pinch">>, "t2", EmptyMap)>>)

SpecTeardown == InitTeardown /\ [][NextTeardown]_vars

\* the instances a step destroys
DestroyedNow == {i \in Live : gestures'[i].destroyed}

\* C26: after a step of unregisterElement, unregisterAllGestures or destroy,
\* the registry holds no record of an instance the step destroyed.
C26_NoRecordOfDestroyed ==
    [][\A i \in DestroyedNow : \A r \in activeGestures' : r[2] # i]_vars

\* a teardown call has just destroyed an instance that was active
C26_Witness ==
    /\ lastOp.op \in {"unregisterElement", "unregisterAllGestures", "destroy"}
    /\ \E i \in 1..Len(gestures) :
          /\ gestures[i].destroyed
          /\ proto[i] = "open"

\* C29: unregisterAllGestures(element) destroys every live instance that was
\* registered on the element, removes the element from elementGestureMap and
\* leaves no registry record of the element; the instances, the map entries
\* and the registry records of every other element are unchanged.
C29_UnregisterAllFrame ==
    [][lastOp'.op = "unregisterAllGestures" =>
          LET element == lastOp'.arg.element IN
          /\ \A i \in Live : gestures[i].element = element => gestures'[i].destroyed
          /\ element \notin DOMAIN elementGestureMap'
          /\ \A r \in activeGestures' : r[1] # element
          /\ \A i \in Live : gestures[i].element # element => gestures'[i] = gestures[i]
          /\ \A e \in DOMAIN elementGestureMap \ {element} :
                /\ e \in DOMAIN elementGestureMap'
                /\ elementGestureMap'[e] = elementGestureMap[e]
          /\ {r \in activeGestures' : r[1] # element}
                = {r \in activeGestures : r[1] # element}]_vars

\* ------------------------------------------------- the options channel
\* an updateOptions that takes the defaults for what the detail leaves out
updateOptionsReplacing(g, options) ==
    [g EXCEPT
        !.preventDefault = IF "preventDefault" \in DOMAIN options
                           THEN options.preventDefault ELSE FALSE,
        !.stopPropagation = IF "stopPropagation" \in DOMAIN options
                            THEN options.stopPropagation ELSE FALSE,
        !.preventIf = IF "preventIf" \in DOMAIN options THEN options.preventIf ELSE {}]

\* Gesture.updateOptions: options.f ?? this.f for the three common options
updateOptions(g, options) ==
    [g EXCEPT
        !.preventDefault = IF "preventDefault" \in DOMAIN options
                           THEN options.preventDefault ELSE @,
        !.stopPropagation = IF "stopPropagation" \in DOMAIN options
                            THEN options.stopPropagation ELSE @,
        !.preventIf = IF "preventIf" \in DOMAIN options THEN options.preventIf ELSE @]

\* PointerGesture.updateOptions, as far as the common options go: they are
\* handed on to Gesture.updateOptions
PointerGestureUpdateOptions(g, options) == updateOptions(g, options)

\* the instances that listen for the ChangeOptions event of a name on an
\* element: init adds the listener; destroy removes a freshly bound function,
\* which is not the listener, so a destroyed instance listens on
OptionsListeners(gs, gestureName, element) ==
    {i \in 1..Len(gs) : gs[i].name = gestureName /\ gs[i].element = element}

\* element.dispatchEvent(new CustomEvent(name + 'ChangeOptions', {detail}))
ChangeOptions ==
    \E gestureName \in env.names, element \in env.elements, detail \in env.details :
        /\ gestures' = [i \in 1..Len(gestures) |->
                          IF i \in OptionsListeners(gestures, gestureName, element)
                          THEN PointerGestureUpdateOptions(gestures[i], detail)
                          ELSE gestures[i]]
        /\ lastNotify' = <<>>
        /\ emitted' = <<>>
        /\ lastOp' = [op |-> "changeOptions",
                      arg |-> [gestureName |-> gestureName, element |-> element,
                               detail |-> detail],
                      result |-> NULL]
        /\ UNCHANGED <<env, now, pointers, gestureHandlers, pointerManager, activeGestures,
                       gestureTemplates, elementGestureMap, proto>>

NextOptions ==
    \/ PointerEvent
    \/ RegisterElement
    \/ ChangeOptions

\* templates that exclude each other: pan lists pinch in preventIf, pinch
\* lists pan
TemplatesExcluding ==
    [n \in {"pan", "pinch"} |->
        IF n = "pan" THEN [PanTemplate EXCEPT !.preventIf = {"pinch"}]
        ELSE [PinchTemplate EXCEPT !.preventIf = {"pan"}]]

\* pan and pinch on t1, a further pan may be registered on t1 or t2, with or
\* without an override; one finger pans on t1 and the page sends option changes
InitOptions ==
    InitWith([wellFormed |-> TRUE, types |-> {"pointerdown", "pointermove", "pointerup"},
              xs |-> [id \in PointerIds |-> IF id = 1 THEN {0, 20} ELSE {}], ys |-> {0},
              targets |-> {"t1"}, dts |-> {0},
              elements |-> {"t1", "t2"}, names |-> {"pan", "pinch"},
              nameLists |-> {<<"pan">>},
              options |-> {EmptyMap, [pan |-> [stopPropagation |-> TRUE]]},
              details |-> {[preventDefault |-> TRUE, unknown |-> TRUE],
                           [preventIf |-> {"rotate"}]}],
             TemplatesExcluding, <<Call(<<"pan", "pinch">>, "t1", EmptyMap)>>)

SpecOptions == InitOptions /\ [][NextOptions]_vars

CommonOptions == {"preventDefault", "stopPropagation", "preventIf"}

TemplateOptions ==
    {"threshold", "minPointers", "maxPointers", "preventDefault", "stopPropagation",
     "preventIf"}

\* the options a gesture of the kind has: direction is Pan's alone
OptionsOf(kind) == IF kind = "pan" THEN TemplateOptions \cup {"direction"} ELSE TemplateOptions

\* the overrides a registerElement call gives for a name
OverridesFor(options, gestureName) ==
    IF gestureName \in DOMAIN options THEN options[gestureName] ELSE EmptyMap

\* C27: an instance created by a registration has, for every option, the value
\* of the override when the call gives one and the value of its template
\* otherwise, is idle and not in the registry; a pointer event or an option
\* change leaves the templates as they are, and an option change on one target
\* leaves the instances of the other targets as they are.
C27_CloneCarriesTemplate ==
    [][/\ lastOp'.op = "registerElement" =>
            \A i \in Created :
                LET g == gestures'[i]
                    template == gestureTemplates[g.name]
                    overrides == OverridesFor(lastOp'.arg.options, g.name)
                IN /\ \A f \in OptionsOf(g.kind) :
                        g[f] = IF f \in DOMAIN overrides THEN overrides[f] ELSE template[f]
                   /\ g.state = (IF g.kind = "pan" THEN PanInitialState
                                  ELSE PinchInitialState)
                   /\ ~GestureActive(gestures', activeGestures', i)
       /\ lastOp'.op \in EventTypes \cup {"changeOptions"} =>
            gestureTemplates' = gestureTemplates
       /\ lastOp'.op = "changeOptions" =>
            \A i \in 1..Len(gestures) :
                gestures[i].element # lastOp'.arg.element => gestures'[i] = gestures[i]]_vars

\* C28: an options change for a name on a target gives that target's instance
\* of the name the preventDefault, stopPropagation and preventIf the detail
\* supplies and leaves its other fields, its state and its registry
\* membership as they were; no instance is destroyed, subscribed or
\* unsubscribed, and every other instance is unchanged.
C28_OptionsChangeOverwritesSupplied ==
    [][lastOp'.op = "changeOptions" =>
          LET detail == lastOp'.arg.detail IN
          /\ \A i \in 1..Len(gestures) :
                IF /\ gestures[i].name = lastOp'.arg.gestureName
                   /\ gestures[i].element = lastOp'.arg.element
                THEN /\ \A f \in DOMAIN gestures[i] :
                          gestures'[i][f] =
                              IF f \in CommonOptions \cap DOMAIN detail THEN detail[f]
                              ELSE gestures[i][f]
                     /\ DOMAIN gestures'[i] = DOMAIN gestures[i]
                ELSE gestures'[i] = gestures[i]
          /\ Len(gestures') = Len(gestures)
          /\ UNCHANGED <<activeGestures, gestureHandlers, elementGestureMap>>
          /\ emitted' = <<>>]_vars

\* an options change has just reached a Pan that is mid-gesture: it has the
\* new preventIf and is still active
C28_Witness ==
    /\ lastOp.op = "changeOptions"
    /\ "preventIf" \in DOMAIN lastOp.arg.detail
    /\ \E i \in Live :
          /\ gestures[i].name = lastOp.arg.gestureName
          /\ gestures[i].element = lastOp.arg.element
          /\ gestures[i].preventIf = lastOp.arg.detail.preventIf
          /\ ~gestures[i].preventDefault
          /\ GestureActive(gestures, activeGestures, i)

\* C30: while a Pinch that started with a nonzero spread is active, every move
\* of its pointers multiplies the total scale by current spread / previous
\* spread (so that over the activation total scale = total at its start x
\* current spread / start spread) and the notification carries that total; an
\* end, a cancel or a suppression leaves the total as it is, and a start
\* carries the total the instance had before it.
C30_TotalScaleAccumulates ==
    [][\A i \in Live :
          gestures[i].kind = "pinch" =>
          LET s == gestures[i].state
              t == gestures'[i].state
              spread == calculateAverageDistance(RelevantIn(pointers', i))
          IN /\ (/\ lastOp'.op = "pointermove"
                 /\ GestureActive(gestures, activeGestures, i)
                 /\ Truthy(s.startDistance)
                 /\ Contains(gestures[i].element, lastOp'.arg.target)
                 /\ Cardinality(RelevantIn(pointers', i)) >= gestures[i].minPointers)
                => /\ NumMul(t.totalScale, s.lastDistance) = NumMul(s.totalScale, spread)
                   /\ \A k \in Emissions(emitted', i, "ongoing") :
                          emitted'[k].detail.totalScale = t.totalScale
             /\ lastOp'.op # "pointermove" => t.totalScale = s.totalScale
             /\ \A k \in Emissions(emitted', i, "start") :
                    emitted'[k].detail.totalScale = s.totalScale]_vars

\* a pinch under three fingers on one line: pointer 1 rests at 0, pointer 3 at
\* 40, pointer 2 is at 0 (on pointer 1) or at 80
InitPinchLift ==
    InitWith([wellFormed |-> TRUE, types |-> {"pointerdown", "pointermove", "pointerup"},
              xs |-> [id \in {1, 2, 3} |-> IF id = 1 THEN {0} ELSE IF id = 3 THEN {40}
                                            ELSE {0, 80}],
              ys |-> {0},
              targets |-> {"t1"}, dts |-> {0},
              elements |-> {"t1"}, names |-> {"pinch"},
              nameLists |-> {}, options |-> {EmptyMap}],
             Templates,
             <<Call(<<"pinch">>, "t1", EmptyMap)>>)

SpecPinchLift == InitPinchLift /\ [][NextEvents]_vars

\* the larger of two numbers
Max(a, b) == IF a >= b THEN a ELSE b

\* enough pointers of instance i stay pressed in the map for a pinch to go on
EnoughPressed(map, i) ==
    Cardinality(Pressed(map, i)) >= Max(2, gestures[i].minPointers)

\* C31: when a pointer leaves an active Pinch and at least max(2, minPointers)
\* relevant pointers stay pressed, the Pinch stays active, emits nothing and
\* sets the start distance to (spread of the remaining pointers) / last scale;
\* a move that follows the lift without motion emits one ongoing with the
\* last scale and leaves the total scale as it is.
C31_PinchLiftRebases ==
    [][\A i \in Live :
          (gestures[i].kind = "pinch" /\ GestureActive(gestures, activeGestures, i))
          =>
          /\ (/\ lastOp'.op \in LiftOps
              /\ lastOp'.arg.pointerId \in Ids(RelevantIn(pointers, i))
              /\ EnoughPressed(pointers', i))
             => /\ GestureActive(gestures', activeGestures', i)
                /\ \A k \in 1..Len(emitted') : emitted'[k].gesture # i
                /\ gestures'[i].state.startDistance =
                      NumDiv(calculateAverageDistance(RelevantIn(pointers', i)),
                             gestures[i].state.lastScale)
          /\ (/\ lastOp.op \in LiftOps
              /\ EnoughPressed(pointers, i)
              /\ lastOp'.op = "pointermove"
              /\ lastOp'.arg.pointerId \in DOMAIN pointers
              /\ pointers' = pointers)
             => /\ Cardinality(Emissions(emitted', i, "ongoing")) = 1
                /\ \A k \in Emissions(emitted', i, "ongoing") :
                      /\ emitted'[k].detail.scale = gestures[i].state.lastScale
                      /\ emitted'[k].detail.totalScale = gestures[i].state.totalScale
                /\ gestures'[i].state.totalScale = gestures[i].state.totalScale]_vars

\* C32: an up or cancel that leaves fewer than minPointers relevant pointers
\* pressed on an active Pinch makes it emit exactly one notification (cancel
\* for pointercancel, end for pointerup), leaves it inactive with no record in
\* the registry, and resets startDistance, lastDistance, lastScale, lastTime
\* and velocity.
C32_PinchLiftEnds ==
    [][\A i \in Live :
          (/\ gestures[i].kind = "pinch"
           /\ GestureActive(gestures, activeGestures, i)
           /\ lastOp'.op \in LiftOps
           /\ Cardinality(Pressed(pointers', i)) < gestures[i].minPointers)
          => /\ Cardinality({k \in 1..Len(emitted') : emitted'[k].gesture = i}) = 1
             /\ Cardinality(Emissions(emitted', i,
                    IF lastOp'.op = "pointercancel" THEN "cancel" ELSE "end")) = 1
             /\ ~GestureActive(gestures', activeGestures', i)
             /\ <<gestures[i].element, i>> \notin activeGestures'
             /\ gestures'[i].state.startDistance = Num(0)
             /\ gestures'[i].state.lastDistance = Num(0)
             /\ gestures'[i].state.lastScale = Num(1)
             /\ gestures'[i].state.lastTime = 0
             /\ gestures'[i].state.velocity = Num(0)]_vars

\* a pointercancel has just ended a Pinch whose scale had left 1
C32_Witness ==
    /\ lastOp.op = "pointercancel"
    /\ \E i \in Live :
          /\ gestures[i].kind = "pinch"
          /\ Emissions(emitted, i, "cancel") # {}
          /\ \E k \in Emissions(emitted, i, "cancel") : emitted[k].detail.scale # Num(1)
          /\ ~GestureActive(gestures, activeGestures, i)

\* instance b is named in the preventIf of instance a, on the same target
Suppresses(b, a) ==
    /\ a # b
    /\ gestures[a].element = gestures[b].element
    /\ gestures[b].name \in gestures[a].preventIf

\* C33: while an instance named in preventIf of instance a is active on the
\* same target, a pointer event inside the target makes an active a emit
\* exactly one cancel and leaves it inactive, and makes an inactive a emit
\* nothing and keep its state.
C33_PreventIfCancels ==
    [][\A a \in Live, b \in Live :
          (/\ Suppresses(b, a)
           /\ GestureActive(gestures, activeGestures, b)
           /\ GestureActive(gestures', activeGestures', b)
           /\ lastOp'.op \in EventTypes)
          => IF GestureActive(gestures, activeGestures, a)
             THEN /\ Cardinality(Emissions(emitted', a, "cancel")) = 1
                  /\ ~GestureActive(gestures', activeGestures', a)
             ELSE /\ \A k \in 1..Len(emitted') : emitted'[k].gesture # a
                  /\ gestures'[a] = gestures[a]]_vars

\* handler b is subscribed before handler a, so that forEach calls b first
DispatchedBefore(b, a) ==
    \E j \in 1..Len(gestureHandlers), k \in 1..Len(gestureHandlers) :
        j < k /\ gestureHandlers[j] = b /\ gestureHandlers[k] = a

\* C34: in one notification pass an instance a dispatched after an instance b
\* of the same target reads the status b has after its own handler ran: the
\* active gestures a reports hold the name of b exactly if b is active, and
\* an a that lists b in preventIf neither starts nor goes on in the pass in
\* which b became active.
C34_RegistryReadsFresh ==
    [][\A a \in Live, b \in Live :
          (/\ a # b
           /\ gestures[a].element = gestures[b].element
           /\ DispatchedBefore(b, a)
           /\ lastOp'.op \in EventTypes)
          => /\ \A k \in 1..Len(emitted') :
                   emitted'[k].gesture = a
                   => /\ "activeGestures" \in DOMAIN emitted'[k].detail
                      /\ (gestures[b].name \in emitted'[k].detail.activeGestures)
                            <=> GestureActive(gestures', activeGestures', b)
             /\ (/\ gestures[b].name \in gestures[a].preventIf
                 /\ ~GestureActive(gestures, activeGestures, b)
                 /\ GestureActive(gestures', activeGestures', b))
                => /\ Emissions(emitted', a, "start") = {}
                   /\ Emissions(emitted', a, "ongoing") = {}
                   /\ ~GestureActive(gestures', activeGestures', a)]_vars

\* two recognizers of the pinch kind under different names, each listing the
\* other in preventIf
TemplatesPinchPair ==
    [n \in {"pinch", "zoom"} |->
        [PinchTemplate EXCEPT !.name = n,
                              !.preventIf = IF n = "zoom" THEN {"pinch"} ELSE {"zoom"}]]

InitPinchPair ==
    InitWith([wellFormed |-> TRUE, types |-> EventTypes,
              xs |-> [id \in PointerIds |-> {0, 20}], ys |-> {0},
              targets |-> {"t1"}, dts |-> {0},
              elements |-> {"t1"}, names |-> {"pinch", "zoom"},
              nameLists |-> {}, options |-> {EmptyMap}],
             TemplatesPinchPair, <<Call(<<"pinch", "zoom">>, "t1", EmptyMap)>>)

SpecPinchPair == InitPinchPair /\ [][NextEvents]_vars

\* C35: the total delta of a Pan changes only in a move that emits an ongoing,
\* by (current centroid - last centroid); a start, an end and a cancel leave
\* it as it is, and from one step of an activation to the next
\* total - last centroid is constant (total = total at the start + current
\* centroid - centroid at the start).
C35_PanTotalOnlyOnOngoing ==
    [][\A i \in Live :
          gestures[i].kind = "pan" =>
             LET s == gestures[i].state
                 t == gestures'[i].state
             IN /\ (t.totalDeltaX # s.totalDeltaX \/ t.totalDeltaY # s.totalDeltaY)
                   => /\ lastOp'.op = "pointermove"
                      /\ Cardinality(Emissions(emitted', i, "ongoing")) = 1
                /\ \A k \in Emissions(emitted', i, "ongoing") :
                      /\ s.lastCentroid # None
                      /\ t.totalDeltaX = NumAdd(s.totalDeltaX,
                            NumSub(emitted'[k].detail.centroid.x, s.lastCentroid[1].x))
                      /\ t.totalDeltaY = NumAdd(s.totalDeltaY,
                            NumSub(emitted'[k].detail.centroid.y, s.lastCentroid[1].y))
                      /\ emitted'[k].detail.totalDeltaX = t.totalDeltaX
                      /\ emitted'[k].detail.totalDeltaY = t.totalDeltaY
                /\ \A k \in 1..Len(emitted') :
                      (emitted'[k].gesture = i /\ emitted'[k].phase # "ongoing")
                      => /\ emitted'[k].detail.totalDeltaX = s.totalDeltaX
                         /\ emitted'[k].detail.totalDeltaY = s.totalDeltaY
                /\ (s.active /\ t.active)
                   => /\ NumSub(t.totalDeltaX, t.lastCentroid[1].x)
                          = NumSub(s.totalDeltaX, s.lastCentroid[1].x)
                      /\ NumSub(t.totalDeltaY, t.lastCentroid[1].y)
                          = NumSub(s.totalDeltaY, s.lastCentroid[1].y)]_vars

\* C36: after an interrupt every Pan is idle: not active, without start
\* centroid and with the threshold flag cleared, also when it had recorded a
\* start centroid at a down and had not crossed the threshold.
C36_InterruptLeavesPanIdle ==
    [][lastOp'.op = "interrupt" =>
         \A i \in Live :
            gestures'[i].kind = "pan" =>
               /\ ~gestures'[i].state.active
               /\ gestures'[i].state.startCentroid = None
               /\ ~gestures'[i].state.movementThresholdReached]_vars

\* the relevant pointers instance i is handed stay within its range
CountInRange(log, i) ==
    /\ Cardinality(Handed(log, i)) >= gestures[i].minPointers
    /\ Cardinality(Handed(log, i)) <= gestures[i].maxPointers

\* C37: a Pan emits start and ongoing only on an event whose relevant
\* pointers, the pointer of the event included, number within [minPointers,
\* maxPointers]; an event that finds it active with a count outside the range
\* makes it emit exactly one cancel and nothing else and leaves it idle; and a
\* Pan without start centroid emits nothing.
C37_PanCountRange ==
    [][\A i \in Live :
          (gestures[i].kind = "pan" /\ lastOp'.op \in EventTypes)
          => /\ (Emissions(emitted', i, "start") # {} \/ Emissions(emitted', i, "ongoing") # {})
                => CountInRange(lastNotify', i)
             /\ (gestures[i].state.active /\ ~CountInRange(lastNotify', i))
                => /\ Cardinality({k \in 1..Len(emitted') : emitted'[k].gesture = i}) = 1
                   /\ Cardinality(Emissions(emitted', i, "cancel")) = 1
                   /\ ~gestures'[i].state.active
                   /\ gestures'[i].state.startCentroid = None
                   /\ ~gestures'[i].state.movementThresholdReached
             /\ gestures[i].state.startCentroid = None
                => \A k \in 1..Len(emitted') : emitted'[k].gesture # i]_vars

\* a second pointer has just come down on an active single-finger Pan, which
\* cancelled
C37_Witness ==
    /\ lastOp.op = "pointerdown"
    /\ \E i \in Live :
          /\ gestures[i].kind = "pan"
          /\ Cardinality(Handed(lastNotify, i)) > gestures[i].maxPointers
          /\ Emissions(emitted, i, "cancel") # {}
          /\ ~gestures[i].state.active

\* a pinch limited to two fingers, under three: pointer 1 rests at 0, pointer 3
\* at 40, pointer 2 at 80
InitPinchMax ==
    InitWith([wellFormed |-> TRUE, types |-> {"pointerdown", "pointermove", "pointerup"},
              xs |-> [id \in {1, 2, 3} |-> IF id = 1 THEN {0} ELSE IF id = 3 THEN {40}
                                            ELSE {80}],
              ys |-> {0},
              targets |-> {"t1"}, dts |-> {0},
              elements |-> {"t1"}, names |-> {"pinch"},
              nameLists |-> {}, options |-> {EmptyMap}],
             Templates,
             <<Call(<<"pinch">>, "t1", [pinch |-> [maxPointers |-> 2]])>>)

SpecPinchMax == InitPinchMax /\ [][NextEvents]_vars

\* C38: a Pinch emits no start and no ongoing on an event whose relevant
\* pointers number more than maxPointers.
C38_PinchRespectsMaxPointers ==
    [][\A i \in Live :
          (/\ gestures[i].kind = "pinch"
           /\ lastOp'.op \in EventTypes
           /\ Cardinality(Handed(lastNotify', i)) > gestures[i].maxPointers)
          => /\ Emissions(emitted', i, "start") = {}
             /\ Emissions(emitted', i, "ongoing") = {}]_vars

\* a number that is defined and strictly positive
Positive(a) == IsFinite(a) /\ NumGt(a, Num(0))

\* C39: a Pinch never divides by zero: the last scale is not 0 on a move
\* that evaluates scale / lastScale, and the scale and total scale of every
\* notification, as the total scale of the state, are defined and strictly
\* positive.
C39_PinchNeverDividesByZero ==
    [][\A i \in Live :
          gestures[i].kind = "pinch" =>
             /\ (/\ lastOp'.op = "pointermove"
                 /\ Emissions(emitted', i, "ongoing") # {})
                => gestures[i].state.lastScale # Num(0)
             /\ \A k \in 1..Len(emitted') :
                   emitted'[k].gesture = i
                   => /\ Positive(emitted'[k].detail.scale)
                      /\ Positive(emitted'[k].detail.totalScale)
             /\ Positive(gestures'[i].state.totalScale)]_vars
====
